---- MODULE Spec2Model ----
(***************************************************************************)
(* Model of the claude-zuma engine: the doubly linked Chain of Balls       *)
(* (src/core/Chain.ts), the match scans (src/core/Collision.ts), the       *)
(* spawner (BallSpawner.ts), the Score and the per-frame loop of Game      *)
(* (main.ts).                                                              *)
(*                                                                         *)
(* Ball objects live in a heap, chain.balls, indexed by object identity;    *)
(* 0 is the null reference and a slot of colour 0 holds no object.         *)
(* Distances are pixels, times are milliseconds; the frame time and the    *)
(* speeds make every product speed*dt a whole number of pixels.            *)
(***************************************************************************)
EXTENDS Integers, Sequences, FiniteSets, TLC

\* ---------------------------------------------------------------- constants
BALL_RADIUS == 16
SNAP_BACK_SPEED == 400
SHOOTER_COOLDOWN == 200
DEFAULT_VELOCITY == 50
TOTAL_LEVELS == 3

\* ------------------------------------------------------------------- bounds
\* path.totalLength of the level's track, in pixels
TotalLength == 96
\* number of palette colours of the level
NumColors == 2
\* Ball objects reachable at one time
MaxBalls == 7
\* level configuration: initialBallCount, spawnThreshold, ballSpeed (px/s) and
\* 1/spawnRate (ms)
InitialBallCount == 4
SpawnThreshold == 6
BallSpeed == 200
SpawnInterval == 160
\* balls in flight beyond which the player does not fire
MaxFired == 1
\* play time of a level (ms) after which no further frame is taken
MaxTime == 400
\* the frame time (ms); Renderer clamps a frame to 100 ms
FrameTime == 80
\* longest chain the Chain-API specification builds
MaxLength == 3
\* largest distance the Chain-API specification gives to a new ball, and the
\* largest distance it lets a ball be pushed to
MaxDistance == 32
MaxReach == 64
\* longest chain the insertion specification builds
MaxChain == 4
\* largest initialBallCount of the levels findMatch is applied to
MaxRun == 5
\* Score on its own: ball counts, multipliers and scores
MaxCount == 7
MaxMultiplier == 3
MaxScore == 900
\* Score on its own: the length of the string found in localStorage
MaxStored == 2
\* the game with aimed shots: how far beside the track a fired ball is met
MaxOffset == 24
\* Path on its own: control points given to the constructor, samples per Bezier
\* segment (SEGMENTS_PER_CURVE, 50 in the code), the distance between two
\* successive samples, and the steps of the parameter t from 0 to 1
MaxPoints == 7
SegmentsPerCurve == 2
MaxSegmentLength == 2
TSteps == 4
\* left-button presses followed in a run of the mouse
MaxPresses == 3
\* BallSpawner on its own: the time its accumulator may hold
MaxAccumulator == 480

Colors == 1..NumColors
DtSet == {FrameTime}
DistSet == {d \in 0..MaxDistance : d % BALL_RADIUS = 0}

Null == 0
NoSplit == <<>>
NoPending == <<>>
minSpacing == BALL_RADIUS * 2

VARIABLES
  chain,                  \* Game.chain: the Chain object and the heap of Balls
  status,                 \* GameState.status
  currentLevel,           \* GameState.currentLevel
  firedBalls,             \* Game.firedBalls: ids of the balls in flight
  pendingChainReaction,   \* Game.pendingChainReaction: <<front, back>> or NoPending
  score,                  \* Game.score: the Score object
  spawner,                \* Game.spawner: its accumulator (ms)
  ballsSpawned,           \* GameState.ballsSpawned
  shooter,                \* Game.shooter
  timeElapsed,            \* GameState.timeElapsed (ms)
  storage,                \* localStorage: whether it works, the item of Score.storageKey
  path,                   \* Game.currentPath: the Path object
  mouse,                  \* Game.mouseInput: the MouseInput object
  last                    \* the last frame or API call: inputs and the Chain calls made

vars == <<chain, status, currentLevel, firedBalls, pendingChainReaction, score,
          spawner, ballsSpawned, shooter, timeElapsed, storage, path, mouse, last>>

\* ------------------------------------------------------------ Ball, Chain
\* new Ball(color, distanceAlongPath): prev and next start null
Ball(color, distance) ==
  [color |-> color, distanceAlongPath |-> distance, prev |-> Null, next |-> Null]

\* a heap slot that holds no object, and the heap without objects
Free == [color |-> 0, distanceAlongPath |-> 0, prev |-> Null, next |-> Null]

RECURSIVE Heap(_)
Heap(n) == IF n = 0 THEN <<>> ELSE Append(Heap(n - 1), Free)

EmptyHeap == Heap(MaxBalls)

FreeSlots(balls) == {i \in DOMAIN balls : balls[i].color = 0}

Min(S) == CHOOSE x \in S : \A y \in S : x <= y

Range(s) == {s[i] : i \in DOMAIN s}

\* new Chain()
NewChain(balls) ==
  [head |-> Null, tail |-> Null, velocity |-> DEFAULT_VELOCITY,
   splitPoint |-> NoSplit, backVelocity |-> 0, isClosingGap |-> FALSE,
   balls |-> balls]

\* a pushBallsBack that stops after the first ball behind the inserted one
PushLoopOnce(balls, current, prevDistance) ==
  IF current = Null THEN balls
  ELSE IF balls[current].distanceAlongPath < prevDistance + minSpacing
       THEN [balls EXCEPT ![current].distanceAlongPath = prevDistance + minSpacing]
       ELSE balls

\* the while loop of pushBallsBack
RECURSIVE PushLoop(_, _, _)
PushLoop(balls, current, prevDistance) ==
  IF current = Null THEN balls
  ELSE IF balls[current].distanceAlongPath < prevDistance + minSpacing
       THEN PushLoop([balls EXCEPT ![current].distanceAlongPath = prevDistance + minSpacing],
                     balls[current].next, prevDistance + minSpacing)
       ELSE PushLoop(balls, balls[current].next, balls[current].distanceAlongPath)

PushBallsBack(c, insertedBall) ==
  [c EXCEPT !.balls = PushLoop(c.balls, c.balls[insertedBall].next,
                               c.balls[insertedBall].distanceAlongPath)]

\* the guarded pointer writes "if (b) b.next = v" and "if (b) b.prev = v"
SetNext(balls, b, v) == IF b = Null THEN balls ELSE [balls EXCEPT ![b].next = v]
SetPrev(balls, b, v) == IF b = Null THEN balls ELSE [balls EXCEPT ![b].prev = v]

\* the two branches of insertBall, before pushBallsBack
LinkAtHead(c, ball) ==
  [c EXCEPT !.balls = SetPrev([c.balls EXCEPT ![ball].prev = Null, ![ball].next = c.head],
                              c.head, ball),
            !.head = ball,
            !.tail = IF c.tail = Null THEN ball ELSE c.tail]

\* an insertion after afterBall that forgets to move the tail
LinkAfterKeepTail(c, ball, afterBall) ==
  [c EXCEPT !.balls = [SetPrev([c.balls EXCEPT ![ball].prev = afterBall,
                                               ![ball].next = c.balls[afterBall].next],
                               c.balls[afterBall].next, ball)
                         EXCEPT ![afterBall].next = ball]]

LinkAfter(c, ball, afterBall) ==
  [c EXCEPT !.balls = [SetPrev([c.balls EXCEPT ![ball].prev = afterBall,
                                               ![ball].next = c.balls[afterBall].next],
                               c.balls[afterBall].next, ball)
                         EXCEPT ![afterBall].next = ball],
            !.tail = IF afterBall = c.tail THEN ball ELSE c.tail]

InsertBall(c, ball, afterBall) ==
  PushBallsBack(IF afterBall = Null THEN LinkAtHead(c, ball)
                ELSE LinkAfter(c, ball, afterBall), ball)

\* a removeBall that leaves the links of the removed ball as they were
UnlinkKeepLinks(c, ball, p, n) ==
  [c EXCEPT !.balls = SetPrev(SetNext(c.balls, p, n), n, p),
            !.head = IF p # Null THEN c.head ELSE n,
            !.tail = IF n # Null THEN c.tail ELSE p]

\* removeBall, p and n being ball.prev and ball.next
Unlink(c, ball, p, n) ==
  [c EXCEPT !.balls = [SetPrev(SetNext(c.balls, p, n), n, p)
                         EXCEPT ![ball].prev = Null, ![ball].next = Null],
            !.head = IF p # Null THEN c.head ELSE n,
            !.tail = IF n # Null THEN c.tail ELSE p]

RemoveBall(c, ball) == Unlink(c, ball, c.balls[ball].prev, c.balls[ball].next)

\* balls.sort((a, b) => a.distanceAlongPath - b.distanceAlongPath): stable
RECURSIVE SortInsert(_, _, _)
SortInsert(balls, sorted, b) ==
  IF sorted = <<>> THEN <<b>>
  ELSE IF balls[sorted[Len(sorted)]].distanceAlongPath <= balls[b].distanceAlongPath
       THEN Append(sorted, b)
       ELSE Append(SortInsert(balls, SubSeq(sorted, 1, Len(sorted) - 1), b),
                   sorted[Len(sorted)])

RECURSIVE SortByDistance(_, _)
SortByDistance(balls, s) ==
  IF s = <<>> THEN <<>>
  ELSE SortInsert(balls, SortByDistance(balls, SubSeq(s, 1, Len(s) - 1)), s[Len(s)])

\* the loop "for (const ball of balls) this.removeBall(ball)"
RECURSIVE RemoveAll(_, _)
RemoveAll(c, s) ==
  IF s = <<>> THEN c ELSE RemoveAll(RemoveBall(c, Head(s)), Tail(s))

\* the end of removeBalls: gap closing starts when both boundaries exist
StartGapClosing(c, frontBall, backBall) ==
  IF frontBall # Null /\ backBall # Null
  THEN [c EXCEPT !.splitPoint = <<c.balls[frontBall].distanceAlongPath + BALL_RADIUS * 2>>,
                 !.backVelocity = -SNAP_BACK_SPEED,
                 !.isClosingGap = TRUE]
  ELSE c

\* removeBalls once the batch is sorted: the boundaries are read, then the balls go
RemoveSorted(c, sorted) ==
  [chain     |-> StartGapClosing(RemoveAll(c, sorted), c.balls[sorted[1]].prev,
                                 c.balls[sorted[Len(sorted)]].next),
   frontBall |-> c.balls[sorted[1]].prev,
   backBall  |-> c.balls[sorted[Len(sorted)]].next]

\* removeBalls: the chain after the call and the returned boundaries
RemoveBalls(c, s) ==
  IF s = <<>> THEN [chain |-> c, frontBall |-> Null, backBall |-> Null]
  ELSE RemoveSorted(c, SortByDistance(c.balls, s))

\* getBalls: the ids met walking next from a ball
RECURSIVE Walk(_, _)
Walk(balls, current) ==
  IF current = Null THEN <<>> ELSE <<current>> \o Walk(balls, balls[current].next)

GetBalls(c) == Walk(c.balls, c.head)
GetLength(c) == Len(GetBalls(c))
IsEmpty(c) == c.head = Null
IsGapClosing(c) == c.isClosingGap

\* the loop "while (current) { current.distanceAlongPath += delta; current = current.next }"
RECURSIVE Shift(_, _, _)
Shift(balls, current, delta) ==
  IF current = Null THEN balls
  ELSE Shift([balls EXCEPT ![current].distanceAlongPath =
                              balls[current].distanceAlongPath + delta],
             balls[current].next, delta)

\* speed (px/s) times dt (ms), in pixels
Px(speed, dt) == (speed * dt) \div 1000

\* a normal advance that moves the head only
UpdateHeadOnly(c, dt) ==
  IF c.head = Null THEN c
  ELSE [c EXCEPT !.balls = [c.balls EXCEPT ![c.head].distanceAlongPath =
                               c.balls[c.head].distanceAlongPath - Px(c.velocity, dt)]]

UpdateNormalMovement(c, dt) ==
  [c EXCEPT !.balls = Shift(c.balls, c.head, -Px(c.velocity, dt))]

\* the re-packing loop of snapGapClosed
RECURSIVE PackLoop(_, _, _)
PackLoop(balls, current, prevDistance) ==
  IF current = Null THEN balls
  ELSE PackLoop([balls EXCEPT ![current].distanceAlongPath = prevDistance + BALL_RADIUS * 2],
                balls[current].next, prevDistance + BALL_RADIUS * 2)

\* a snap that places the back ball and leaves the balls behind it where they are
SnapBackBallOnly(c, frontBall, backBall) ==
  [c EXCEPT !.balls = [c.balls EXCEPT ![backBall].distanceAlongPath =
                          c.balls[frontBall].distanceAlongPath + BALL_RADIUS * 2],
            !.splitPoint = NoSplit, !.backVelocity = 0, !.isClosingGap = FALSE]

SnapGapClosed(c, frontBall, backBall) ==
  [c EXCEPT !.balls = PackLoop(c.balls, backBall, c.balls[frontBall].distanceAlongPath),
            !.splitPoint = NoSplit, !.backVelocity = 0, !.isClosingGap = FALSE]

\* the first ball, walking from head, at or beyond the split (null if none)
RECURSIVE FindBackStart(_, _, _)
FindBackStart(balls, current, split) ==
  IF current = Null THEN Null
  ELSE IF balls[current].distanceAlongPath >= split THEN current
       ELSE FindBackStart(balls, balls[current].next, split)

\* updateGapClosing after the back portion moved: the test "gap <= 2 * radius"
CheckGapClosed(c, backStart) ==
  IF c.balls[backStart].prev # Null
     /\ c.balls[backStart].distanceAlongPath
          - c.balls[c.balls[backStart].prev].distanceAlongPath <= BALL_RADIUS * 2
  THEN SnapGapClosed(c, c.balls[backStart].prev, backStart)
  ELSE c

\* updateGapClosing once backStart is found
MoveBackPortion(c, backStart, backMovement) ==
  IF backStart = Null THEN c
  ELSE CheckGapClosed([c EXCEPT !.balls = Shift(c.balls, backStart, backMovement)], backStart)

UpdateGapClosing(c, dt) ==
  IF c.splitPoint = NoSplit THEN c
  ELSE MoveBackPortion(c, FindBackStart(c.balls, c.head, c.splitPoint[1]),
                       Px(c.backVelocity, dt))

Update(c, dt) ==
  IF c.isClosingGap THEN UpdateGapClosing(c, dt) ELSE UpdateNormalMovement(c, dt)

Clear(c) ==
  [c EXCEPT !.head = Null, !.tail = Null, !.splitPoint = NoSplit,
            !.backVelocity = 0, !.isClosingGap = FALSE]

\* ------------------------------------------------------------ Collision.ts
\* the backward scan of findMatch and checkChainReaction
RECURSIVE ScanBack(_, _, _)
ScanBack(balls, current, color) ==
  IF current # Null /\ balls[current].color = color
  THEN Append(ScanBack(balls, balls[current].prev, color), current)
  ELSE <<>>

\* the forward scan of findMatch and checkChainReaction
RECURSIVE ScanForward(_, _, _)
ScanForward(balls, current, color) ==
  IF current # Null /\ balls[current].color = color
  THEN <<current>> \o ScanForward(balls, balls[current].next, color)
  ELSE <<>>

\* a length test that lets a pair through
AtLeast2(matchingBalls) == IF Len(matchingBalls) >= 2 THEN matchingBalls ELSE <<>>

\* "if (matchingBalls.length >= 3) return ...; return null", <<>> for null
AtLeast3(matchingBalls) == IF Len(matchingBalls) >= 3 THEN matchingBalls ELSE <<>>

\* findMatch: the matched balls head to tail, <<>> for null
FindMatch(balls, startBall) ==
  AtLeast3(ScanBack(balls, balls[startBall].prev, balls[startBall].color)
           \o <<startBall>>
           \o ScanForward(balls, balls[startBall].next, balls[startBall].color))

\* a checkChainReaction without the comparison of the two colours
CheckChainReactionAnyColour(balls, frontBall, backBall) ==
  IF frontBall = Null \/ backBall = Null THEN <<>>
  ELSE AtLeast3(ScanBack(balls, frontBall, balls[frontBall].color)
                \o ScanForward(balls, backBall, balls[frontBall].color))

\* checkChainReaction: the matched balls, <<>> for null
CheckChainReaction(balls, frontBall, backBall) ==
  IF frontBall = Null \/ backBall = Null THEN <<>>
  ELSE IF balls[frontBall].color # balls[backBall].color THEN <<>>
  ELSE AtLeast3(ScanBack(balls, frontBall, balls[frontBall].color)
                \o ScanForward(balls, backBall, balls[frontBall].color))

\* a checkHoleCollision that lets the head rest on the sink
CheckHoleCollisionPast(c) ==
  IF IsEmpty(c) THEN FALSE ELSE c.balls[c.head].distanceAlongPath < 0

CheckHoleCollision(c) ==
  IF IsEmpty(c) THEN FALSE ELSE c.balls[c.head].distanceAlongPath <= 0

\* Math.max(0, insertionDistance)
Max0(d) == IF d > 0 THEN d ELSE 0

\* the insertionDistance checkBallChainCollision returns for a collision with
\* collidedWith on the side insertBefore
InsertionDistance(c, collidedWith, insertBefore) ==
  IF insertBefore
  THEN Max0(c.balls[collidedWith].distanceAlongPath - BALL_RADIUS * 2)
  ELSE Max0(c.balls[collidedWith].distanceAlongPath + BALL_RADIUS * 2)

\* The path of the level is a straight track on the x axis, the hole at the
\* origin: getPointAtDistance clamps the distance to 0..totalLength, the
\* tangent is the unit vector of the axis.
Clamp(d) == IF d < 0 THEN 0 ELSE IF d > TotalLength THEN TotalLength ELSE d
GetPointAtDistance(d) == [x |-> Clamp(d), y |-> 0]
GetTangentAtDistance(d) == [x |-> 1, y |-> 0]

\* distance(a, b) squared: Math.sqrt is increasing, the comparisons of
\* distances are made on the squares
SquaredDistance(a, b) == (b.x - a.x) * (b.x - a.x) + (b.y - a.y) * (b.y - a.y)

\* "dist" of the loop for the ball current
DistTo(c, firedPos, current) ==
  SquaredDistance(firedPos, GetPointAtDistance(c.balls[current].distanceAlongPath))

\* a loop that keeps the first ball in reach instead of the closest
RECURSIVE ClosestLoopFirst(_, _, _, _)
ClosestLoopFirst(c, firedPos, current, closestBall) ==
  IF current = Null THEN closestBall
  ELSE IF /\ DistTo(c, firedPos, current) < (BALL_RADIUS * 2) * (BALL_RADIUS * 2)
          /\ closestBall = Null
       THEN ClosestLoopFirst(c, firedPos, c.balls[current].next, current)
       ELSE ClosestLoopFirst(c, firedPos, c.balls[current].next, closestBall)

\* the loop over the chain: closestBall is the ball kept so far, Null while
\* closestDist is Infinity
RECURSIVE ClosestLoop(_, _, _, _)
ClosestLoop(c, firedPos, current, closestBall) ==
  IF current = Null THEN closestBall
  ELSE IF /\ DistTo(c, firedPos, current) < (BALL_RADIUS * 2) * (BALL_RADIUS * 2)
          /\ (closestBall = Null
               \/ DistTo(c, firedPos, current) < DistTo(c, firedPos, closestBall))
       THEN ClosestLoop(c, firedPos, c.balls[current].next, current)
       ELSE ClosestLoop(c, firedPos, c.balls[current].next, closestBall)

\* the dot product of toFired with the tangent at the collided ball
Dot(c, firedPos, closestBall) ==
  (firedPos.x - GetPointAtDistance(c.balls[closestBall].distanceAlongPath).x)
      * GetTangentAtDistance(c.balls[closestBall].distanceAlongPath).x
  + (firedPos.y - GetPointAtDistance(c.balls[closestBall].distanceAlongPath).y)
      * GetTangentAtDistance(c.balls[closestBall].distanceAlongPath).y

\* the CollisionResult for the closest ball; collidedWith is Null for null
Collision(c, firedPos, closestBall) ==
  IF closestBall = Null
  THEN [collidedWith |-> Null, insertBefore |-> FALSE, insertionDistance |-> 0]
  ELSE [collidedWith |-> closestBall,
        insertBefore |-> Dot(c, firedPos, closestBall) < 0,
        insertionDistance |->
          InsertionDistance(c, closestBall, Dot(c, firedPos, closestBall) < 0)]

CheckBallChainCollision(firedPos, c) ==
  Collision(c, firedPos, ClosestLoop(c, firedPos, c.head, Null))

\* ---------------------------------------------------------------- Score
NewScore == [current |-> 0, total |-> 0, chainMultiplier |-> 1, highScore |-> 0]

BasePoints(ballCount) ==
  IF ballCount = 3 THEN 100
  ELSE IF ballCount = 4 THEN 150
  ELSE IF ballCount >= 5 THEN 200 + 50 * (ballCount - 5)
  ELSE 0

\* an addMatchPoints that leaves the chain multiplier out
AddBasePoints(sc, ballCount) ==
  IF ballCount < 3 THEN sc
  ELSE [sc EXCEPT !.current = sc.current + BasePoints(ballCount)]

\* the value addMatchPoints returns
MatchPoints(sc, ballCount) ==
  IF ballCount < 3 THEN 0 ELSE BasePoints(ballCount) * sc.chainMultiplier

AddMatchPoints(sc, ballCount) ==
  IF ballCount < 3 THEN sc
  ELSE [sc EXCEPT !.current = sc.current + BasePoints(ballCount) * sc.chainMultiplier]

IncrementChainMultiplier(sc) == [sc EXCEPT !.chainMultiplier = sc.chainMultiplier + 1]
ResetChainMultiplier(sc) == [sc EXCEPT !.chainMultiplier = 1]
ResetLevel(sc) == [sc EXCEPT !.current = 0, !.chainMultiplier = 1]
ResetGame(sc) == [sc EXCEPT !.current = 0, !.total = 0, !.chainMultiplier = 1]

\* a completeLevel that leaves the best score as it was
CompleteLevelOnly(sc) == [sc EXCEPT !.total = sc.total + sc.current]

CompleteLevel(sc) ==
  [sc EXCEPT !.total = sc.total + sc.current,
             !.highScore = IF sc.total + sc.current > sc.highScore
                           THEN sc.total + sc.current ELSE sc.highScore]

\* localStorage as Score sees it: available tells whether getItem and setItem
\* work (they throw otherwise); item is the string kept under storageKey, a
\* sequence of characters, when there is one
NoItem == [present |-> FALSE, value |-> <<>>]
Item(str) == [present |-> TRUE, value |-> str]
FreshStorage == [available |-> TRUE, item |-> NoItem]

Digits == <<"0", "1", "2", "3", "4", "5", "6", "7", "8", "9">>
IsDigit(ch) == \E d \in 1..10 : Digits[d] = ch
DigitValue(ch) == (CHOOSE d \in 1..10 : Digits[d] = ch) - 1

\* Number.prototype.toString() of an integer
RECURSIVE NatToString(_)
NatToString(n) ==
  IF n < 10 THEN <<Digits[n + 1]>>
  ELSE Append(NatToString(n \div 10), Digits[(n % 10) + 1])

NumberToString(n) == IF n < 0 THEN <<"-">> \o NatToString(0 - n) ELSE NatToString(n)

\* parseInt(str, 10): leading white space is skipped, a sign is read, then the
\* digits up to the first other character; NaN when there is no digit
NaN == [nan |-> TRUE, value |-> 0]

RECURSIVE SkipSpace(_)
SkipSpace(str) ==
  IF str # <<>> /\ Head(str) = " " THEN SkipSpace(Tail(str)) ELSE str

RECURSIVE ReadDigits(_, _)
ReadDigits(str, n) ==
  IF str # <<>> /\ IsDigit(Head(str))
  THEN ReadDigits(Tail(str), 10 * n + DigitValue(Head(str)))
  ELSE n

ParseUnsigned(str) ==
  IF str # <<>> /\ IsDigit(Head(str)) THEN [nan |-> FALSE, value |-> ReadDigits(str, 0)]
  ELSE NaN

Negated(p) == [p EXCEPT !.value = 0 - p.value]

ParseSigned(str) ==
  IF str # <<>> /\ Head(str) = "-" THEN Negated(ParseUnsigned(Tail(str)))
  ELSE IF str # <<>> /\ Head(str) = "+" THEN ParseUnsigned(Tail(str))
  ELSE ParseUnsigned(str)

ParseInt(str) == ParseSigned(SkipSpace(str))

\* "parseInt(stored, 10) || 0": NaN and 0 are falsy
OrZero(p) == IF p.nan \/ p.value = 0 THEN 0 ELSE p.value

\* Score.loadHighScore: a throwing getItem is caught, "if (stored)" skips null
\* and the empty string
LoadHighScore(sc, st) ==
  IF ~st.available THEN sc
  ELSE IF ~st.item.present \/ st.item.value = <<>> THEN sc
  ELSE [sc EXCEPT !.highScore = OrZero(ParseInt(st.item.value))]

\* Score.saveHighScore: the storage after it; a throwing setItem is caught
SaveHighScore(sc, st) ==
  IF ~st.available THEN st ELSE [st EXCEPT !.item = Item(NumberToString(sc.highScore))]

\* new Score()
ConstructScore(st) == LoadHighScore(NewScore, st)

\* completeLevel, updateHighScore: the storage after the call
CompleteLevelStorage(sc, st) ==
  IF sc.total + sc.current > sc.highScore THEN SaveHighScore(CompleteLevel(sc), st)
  ELSE st

\* ------------------------------------------------------------------- Path
\* A Path is kept as the number of its control points, its arcLengthTable and
\* its totalLength. The coordinates of the control points are left open: the
\* distances between successive samples of the curve, which the constructor
\* adds up, are any whole numbers from 0 to MaxSegmentLength. arcLengthTable
\* is indexed from 0 in the code and from 1 here.
NoPath == [points |-> 0, arcLengthTable |-> <<>>, totalLength |-> 0]

\* Math.floor((controlPoints.length - 1) / 3)
NumSegments(points) == (points - 1) \div 3

\* steps of calculateTotalLength and buildArcLengthTable
Steps(points) == SegmentsPerCurve * NumSegments(points)

\* the loop of calculateTotalLength: "length += Math.sqrt(dx * dx + dy * dy)"
RECURSIVE CalculateTotalLength(_)
CalculateTotalLength(lengths) ==
  IF lengths = <<>> THEN 0
  ELSE CalculateTotalLength(SubSeq(lengths, 1, Len(lengths) - 1)) + lengths[Len(lengths)]

\* buildArcLengthTable: [0], then the running length after every step
RECURSIVE BuildArcLengthTable(_)
BuildArcLengthTable(lengths) ==
  IF lengths = <<>> THEN <<0>>
  ELSE Append(BuildArcLengthTable(SubSeq(lengths, 1, Len(lengths) - 1)),
              CalculateTotalLength(lengths))

\* new Path(id, controlPoints): error tells whether the constructor threw
ConstructPath(points, lengths) ==
  IF points < 4 THEN [error |-> TRUE, path |-> NoPath]
  ELSE [error |-> FALSE,
        path |-> [points |-> points, arcLengthTable |-> BuildArcLengthTable(lengths),
                  totalLength |-> CalculateTotalLength(lengths)]]

\* the parameter t is k / TSteps; "t = Math.max(0, Math.min(1, t))"
ClampT(k) == IF k < 0 THEN 0 ELSE IF k > TSteps THEN TSteps ELSE k

\* a segment index that is not held below numSegments
SegmentIndexUnclamped(numSegments, k) == (k * numSegments) \div TSteps

\* "Math.min(Math.floor(segmentT), numSegments - 1)" for segmentT = t * numSegments
SegmentIndex(numSegments, k) ==
  IF (k * numSegments) \div TSteps < numSegments - 1
  THEN (k * numSegments) \div TSteps
  ELSE numSegments - 1

\* getPointAtT once t is clamped: the indices i .. i + 3 of the control points
\* read (from 0, as in the code) and localT times TSteps
PointAt(numSegments, k) ==
  [indices |-> [j \in 1..4 |-> SegmentIndex(numSegments, k) * 3 + (j - 1)],
   localT  |-> k * numSegments - SegmentIndex(numSegments, k) * TSteps]

GetPointAtT(p, k) == PointAt(NumSegments(p.points), ClampT(k))

\* "distance = Math.max(0, Math.min(this.totalLength, distance))"
ClampDistance(p, distance) ==
  IF distance > p.totalLength THEN (IF p.totalLength < 0 THEN 0 ELSE p.totalLength)
  ELSE IF distance < 0 THEN 0 ELSE distance

\* a search that moves low past the entries equal to the distance
RECURSIVE BinarySearchPastEqual(_, _, _, _)
BinarySearchPastEqual(table, low, high, distance) ==
  IF low < high
  THEN IF table[(low + high) \div 2 + 1] <= distance
       THEN BinarySearchPastEqual(table, (low + high) \div 2 + 1, high, distance)
       ELSE BinarySearchPastEqual(table, low, (low + high) \div 2, distance)
  ELSE low

\* the binary search of distanceToT: the value of low at the end of the loop
RECURSIVE BinarySearch(_, _, _, _)
BinarySearch(table, low, high, distance) ==
  IF low < high
  THEN IF table[(low + high) \div 2 + 1] < distance
       THEN BinarySearch(table, (low + high) \div 2 + 1, high, distance)
       ELSE BinarySearch(table, low, (low + high) \div 2, distance)
  ELSE low

\* distanceToT after the search: the value returned is num / den; den is 0
\* when the division "(distance - d0) / (d1 - d0)" is a division by 0
Interpolate(table, low, distance) ==
  IF low = 0 THEN [low |-> 0, num |-> 0, den |-> 1]
  ELSE [low |-> low,
        num |-> (low - 1) * (table[low + 1] - table[low]) + (distance - table[low]),
        den |-> (table[low + 1] - table[low]) * (Len(table) - 1)]

Searched(table, distance) ==
  Interpolate(table, BinarySearch(table, 0, Len(table) - 1, distance), distance)

DistanceToT(p, distance) == Searched(p.arcLengthTable, ClampDistance(p, distance))

\* the Path of the level, which initializeLevel makes the current path: a
\* straight track of length TotalLength
LevelPath ==
  [points |-> 4,
   arcLengthTable |-> [i \in 1..(SegmentsPerCurve + 1) |->
                         ((i - 1) * TotalLength) \div SegmentsPerCurve],
   totalLength |-> TotalLength]

\* ------------------------------------------------------------- MouseInput
\* new MouseInput(canvas)
NewMouse ==
  [leftClickPressed |-> FALSE, rightClickPressed |-> FALSE,
   leftClickConsumed |-> FALSE, rightClickConsumed |-> FALSE]

HandleMouseDown(m, button) ==
  IF button = 0 THEN [m EXCEPT !.leftClickPressed = TRUE, !.leftClickConsumed = FALSE]
  ELSE IF button = 2 THEN [m EXCEPT !.rightClickPressed = TRUE, !.rightClickConsumed = FALSE]
  ELSE m

HandleMouseUp(m, button) ==
  IF button = 0 THEN [m EXCEPT !.leftClickPressed = FALSE]
  ELSE IF button = 2 THEN [m EXCEPT !.rightClickPressed = FALSE]
  ELSE m

HandleMouseLeave(m) == [m EXCEPT !.leftClickPressed = FALSE, !.rightClickPressed = FALSE]

\* isFirePressed: the value returned, and the object after the call
FirePressed(m) == m.leftClickPressed /\ ~m.leftClickConsumed

IsFirePressed(m) == IF FirePressed(m) THEN [m EXCEPT !.leftClickConsumed = TRUE] ELSE m

\* isSwapPressed: the value returned, and the object after the call
SwapPressed(m) == m.rightClickPressed /\ ~m.rightClickConsumed

IsSwapPressed(m) == IF SwapPressed(m) THEN [m EXCEPT !.rightClickConsumed = TRUE] ELSE m

\* MouseInput.update
ResetLeft(m) == IF ~m.leftClickPressed THEN [m EXCEPT !.leftClickConsumed = FALSE] ELSE m
ResetRight(m) == IF ~m.rightClickPressed THEN [m EXCEPT !.rightClickConsumed = FALSE] ELSE m
MouseUpdate(m) == ResetRight(ResetLeft(m))

\* ------------------------------------------------------ the game state
\* A game state g is the record of the variables plus: calls, the Chain calls
\* made so far in the frame, each with the chain before and after it; fresh,
\* the Ball allocated last; spawned, the count BallSpawner.update returns;
\* removed, the result of the last removeBalls; ok, false when an input of the
\* frame does not fit the state it meets (a collision with a ball that is not
\* in the chain) or the heap has no slot left.
WithChain(g, c) == [g EXCEPT !.chain = c]

\* new Ball(color, distance): the object takes the lowest free slot
New(g, color, distance) ==
  IF ~g.ok \/ FreeSlots(g.chain.balls) = {} THEN [g EXCEPT !.ok = FALSE, !.fresh = Null]
  ELSE [g EXCEPT !.chain = [g.chain EXCEPT !.balls =
                               [g.chain.balls EXCEPT ![Min(FreeSlots(g.chain.balls))] =
                                                       Ball(color, distance)]],
                 !.fresh = Min(FreeSlots(g.chain.balls))]

Resident(c, b) == b \in Range(GetBalls(c))

\* one Chain call: the chain before and after, the arguments and the result
Call(op, pre, post, ball, afterBall, balls, dt, frontBall, backBall) ==
  [op |-> op, pre |-> pre, post |-> post, ball |-> ball, afterBall |-> afterBall,
   balls |-> balls, dt |-> dt, frontBall |-> frontBall, backBall |-> backBall]

\* the call takes effect and joins the frame's calls
Logged(g, call) == [g EXCEPT !.chain = call.post, !.calls = Append(g.calls, call)]

LogInsert(g, ball, afterBall) ==
  IF ~g.ok THEN g
  ELSE Logged(g, Call("insertBall", g.chain, InsertBall(g.chain, ball, afterBall),
                      ball, afterBall, <<>>, 0, Null, Null))

LogRemoveBall(g, ball) ==
  Logged(g, Call("removeBall", g.chain, RemoveBall(g.chain, ball),
                 ball, Null, <<>>, 0, Null, Null))

\* r is what removeBalls returned
LogRemoved(g, s, r) ==
  [Logged(g, Call("removeBalls", g.chain, r.chain, Null, Null, s, 0,
                  r.frontBall, r.backBall))
     EXCEPT !.removed = [frontBall |-> r.frontBall, backBall |-> r.backBall]]

LogRemoveBalls(g, s) == LogRemoved(g, s, RemoveBalls(g.chain, s))

LogUpdate(g, dt) ==
  Logged(g, Call("update", g.chain, Update(g.chain, dt), Null, Null, <<>>, dt, Null, Null))

LogClear(g) ==
  Logged(g, Call("clear", g.chain, Clear(g.chain), Null, Null, <<>>, 0, Null, Null))

\* ------------------------------------------------------------ BallSpawner
\* "if (chain.tail) chain.insertBall(ball, chain.tail) else chain.insertBall(ball, null)"
\* for the ball allocated last
InsertAtTail(g) ==
  IF g.chain.tail # Null THEN LogInsert(g, g.fresh, g.chain.tail)
  ELSE LogInsert(g, g.fresh, Null)

\* spawnInitialBalls: colours[i] is the colour drawn for the i-th ball
RECURSIVE SpawnInitialLoop(_, _, _, _)
SpawnInitialLoop(g, colours, i, currentDistance) ==
  IF i > Len(colours) THEN g
  ELSE SpawnInitialLoop(InsertAtTail(New(g, colours[i], currentDistance)),
                        colours, i + 1, currentDistance - BALL_RADIUS * 2)

SpawnInitialBalls(g, colours) == SpawnInitialLoop(g, colours, 1, TotalLength)

\* a spawnBall that does not look at the room at the spawn point
SpawnBallAnyway(g, color) ==
  [InsertAtTail(New(g, color, TotalLength)) EXCEPT !.spawned = g.spawned + 1]

\* spawnBall: g.spawned counts the balls the call added
SpawnBall(g, color) ==
  IF g.chain.tail # Null
     /\ TotalLength - g.chain.balls[g.chain.tail].distanceAlongPath < minSpacing
  THEN g
  ELSE [InsertAtTail(New(g, color, TotalLength)) EXCEPT !.spawned = g.spawned + 1]

\* one turn of the while loop of BallSpawner.update
SpawnTurn(g, color) ==
  [SpawnBall(g, color) EXCEPT !.spawner = [accumulator |-> g.spawner.accumulator
                                                            - SpawnInterval]]

\* the while loop of BallSpawner.update; every draw of the frame gives color
RECURSIVE SpawnerLoop(_, _, _)
SpawnerLoop(g, color, maxBalls) ==
  IF g.spawner.accumulator >= SpawnInterval /\ GetLength(g.chain) < maxBalls
  THEN SpawnerLoop(SpawnTurn(g, color), color, maxBalls)
  ELSE g

SpawnerUpdate(g, dt, color, maxBalls) ==
  SpawnerLoop([g EXCEPT !.spawner = [accumulator |-> g.spawner.accumulator + dt],
                        !.spawned = 0],
              color, maxBalls)

IsSpawningComplete(g) == g.ballsSpawned >= SpawnThreshold

\* a count of the calls of spawner.update instead of the balls they add
CountCalls(g) == [g EXCEPT !.ballsSpawned = g.ballsSpawned + 1]

\* "this.state.ballsSpawned += spawned"
CountSpawned(g) == [g EXCEPT !.ballsSpawned = g.ballsSpawned + g.spawned]

\* Game.updateSpawning
UpdateSpawning(g, dt, color) ==
  IF IsSpawningComplete(g) THEN g
  ELSE CountSpawned(SpawnerUpdate(g, dt, color,
                                  (SpawnThreshold - g.ballsSpawned) + GetLength(g.chain)))

\* ---------------------------------------------------------------- Shooter
NewShooter(c1, c2) == [currentBall |-> c1, reserveBall |-> c2, cooldown |-> 0]

CanFire(sh) == sh.cooldown <= 0

\* Shooter.fire after canFire: the colours shift and the cooldown starts
Fire(sh, newReserve) ==
  [currentBall |-> sh.reserveBall, reserveBall |-> newReserve,
   cooldown |-> SHOOTER_COOLDOWN]

\* the fired ball, allocated last, joins firedBalls
PushFired(g, newReserve) ==
  IF ~g.ok THEN g
  ELSE [g EXCEPT !.firedBalls = Append(g.firedBalls, g.fresh),
                 !.shooter = Fire(g.shooter, newReserve)]

\* Game.fireShooter: newReserve is the colour drawn for the next reserve ball
FireShooter(g, newReserve) ==
  IF ~CanFire(g.shooter) THEN g
  ELSE PushFired(New(g, g.shooter.currentBall, 0), newReserve)

Swap(sh) == [sh EXCEPT !.currentBall = sh.reserveBall, !.reserveBall = sh.currentBall]

\* Shooter.fire: the shooter after the call, unchanged while on cooldown
TryFire(sh, newReserve) == IF ~CanFire(sh) THEN sh ELSE Fire(sh, newReserve)

\* Shooter.fire: the colour of the ball returned, Null for null
FiredBall(sh) == IF ~CanFire(sh) THEN Null ELSE sh.currentBall

\* an update that does not stop the cooldown at 0
ShooterUpdateUnclamped(sh, dt) ==
  IF sh.cooldown > 0 THEN [sh EXCEPT !.cooldown = sh.cooldown - dt] ELSE sh

ShooterUpdate(sh, dt) ==
  IF sh.cooldown > 0
  THEN [sh EXCEPT !.cooldown = IF sh.cooldown - dt < 0 THEN 0 ELSE sh.cooldown - dt]
  ELSE sh

\* ------------------------------------------------------------------- Game
\* Game.addMatchScore
\* an addMatchScore that increments the multiplier after the points
AddMatchScoreThenIncrement(sc, ballCount, isChainReaction) ==
  IF isChainReaction THEN IncrementChainMultiplier(AddMatchPoints(sc, ballCount))
  ELSE AddMatchPoints(sc, ballCount)

AddMatchScore(sc, ballCount, isChainReaction) ==
  AddMatchPoints(IF isChainReaction THEN IncrementChainMultiplier(sc) ELSE sc, ballCount)

\* after removeBalls: the score, and the gap info kept when it has both boundaries
Scored(g, ballCount, isChainReaction) ==
  [g EXCEPT !.score = AddMatchScore(g.score, ballCount, isChainReaction),
            !.pending = IF g.removed.frontBall # Null /\ g.removed.backBall # Null
                        THEN <<g.removed.frontBall, g.removed.backBall>>
                        ELSE g.pending]

\* a checkAndProcessMatch without the reset of the multiplier
ProcessMatchNoReset(g, match) ==
  IF match # <<>> THEN Scored(LogRemoveBalls(g, match), Len(match), FALSE) ELSE g

\* Game.checkAndProcessMatch once findMatch returned
ProcessMatch(g, match) ==
  IF match # <<>> THEN Scored(LogRemoveBalls(g, match), Len(match), FALSE)
  ELSE [g EXCEPT !.score = ResetChainMultiplier(g.score)]

\* Game.checkAndProcessMatch
CheckAndProcessMatch(g, insertedBall) ==
  IF ~g.ok THEN g ELSE ProcessMatch(g, FindMatch(g.chain.balls, insertedBall))

\* outcomes of one fired ball in one frame: it flies on, it left the screen, or
\* checkBallChainCollision found it colliding with a chain ball on one side
Fly == <<"fly">>
Off == <<"off">>
Hit(collidedWith, insertBefore) == <<"hit", collidedWith, insertBefore>>
Outcomes == {Fly, Off} \cup {Hit(t, b) : t \in 1..MaxBalls, b \in BOOLEAN}

\* "ball.distanceAlongPath = collision.insertionDistance"
SetDistance(g, ball, d) ==
  WithChain(g, [g.chain EXCEPT !.balls = [g.chain.balls EXCEPT ![ball].distanceAlongPath = d]])

\* the insertion of the fired ball before or after the collided ball
InsertFired(g, ball, collidedWith, insertBefore) ==
  IF insertBefore THEN LogInsert(g, ball, g.chain.balls[collidedWith].prev)
  ELSE LogInsert(g, ball, collidedWith)

\* the body of the for loop of Game.updateFiredBalls for one ball
ProcessFired(g, ball, out) ==
  IF ~g.ok \/ out[1] # "hit" THEN g
  ELSE IF ~Resident(g.chain, out[2]) THEN [g EXCEPT !.ok = FALSE]
  ELSE CheckAndProcessMatch(
         InsertFired(SetDistance(g, ball, InsertionDistance(g.chain, out[2], out[3])),
                     ball, out[2], out[3]),
         ball)

RECURSIVE FiredLoop(_, _, _, _)
FiredLoop(g, fired, outs, i) ==
  IF i > Len(fired) THEN g
  ELSE FiredLoop(ProcessFired(g, fired[i], outs[i]), fired, outs, i + 1)

\* firedBalls.filter(b => !ballsToRemove.includes(b))
RECURSIVE Filter(_, _, _)
Filter(fired, outs, i) ==
  IF i > Len(fired) THEN <<>>
  ELSE (IF outs[i] = Fly THEN <<fired[i]>> ELSE <<>>) \o Filter(fired, outs, i + 1)

\* Game.updateFiredBalls: outs[i] is the outcome of the i-th ball in flight
UpdateFiredBalls(g, outs) ==
  [FiredLoop(g, g.firedBalls, outs, 1) EXCEPT !.firedBalls = Filter(g.firedBalls, outs, 1)]

\* Game.updateGapClosing once checkChainReaction returned
React(g, chainMatch) ==
  IF chainMatch # <<>> THEN Scored(LogRemoveBalls(g, chainMatch), Len(chainMatch), TRUE)
  ELSE [g EXCEPT !.score = ResetChainMultiplier(g.score)]

\* Game.updateGapClosing after chain.update; checked keeps the boundary balls
\* the cascade check was given and the chain it found
CheckGapJustClosed(g) ==
  IF ~IsGapClosing(g.chain) /\ g.pending # NoPending
  THEN React([g EXCEPT !.pending = NoPending,
                       !.checked = <<[frontBall |-> g.pending[1], backBall |-> g.pending[2],
                                      pre |-> g.chain]>>],
             CheckChainReaction(g.chain.balls, g.pending[1], g.pending[2]))
  ELSE g

\* Game.updateGapClosing
GameUpdateGapClosing(g, dt) == CheckGapJustClosed(LogUpdate(g, dt))

\* the chain movement step of updateGame
MoveChain(g, dt) ==
  IF ~IsGapClosing(g.chain) THEN LogUpdate(g, dt) ELSE GameUpdateGapClosing(g, dt)

\* a win check that does not wait for the end of spawning
CheckEndEarly(g) ==
  IF CheckHoleCollision(g.chain) THEN [g EXCEPT !.status = "LOSE"]
  ELSE IF IsEmpty(g.chain) /\ g.firedBalls = <<>>
       THEN [g EXCEPT !.status = "WIN", !.score = CompleteLevel(g.score),
                      !.storage = CompleteLevelStorage(g.score, g.storage)]
       ELSE g

\* the end of updateGame: the lose and the win condition
CheckEnd(g) ==
  IF CheckHoleCollision(g.chain) THEN [g EXCEPT !.status = "LOSE"]
  ELSE IF IsSpawningComplete(g) /\ IsEmpty(g.chain) /\ g.firedBalls = <<>>
       THEN [g EXCEPT !.status = "WIN", !.score = CompleteLevel(g.score),
                      !.storage = CompleteLevelStorage(g.score, g.storage)]
       ELSE g

\* Game.updateGame
UpdateGame(g, dt, outs, spawnColor) ==
  CheckEnd([UpdateSpawning(
              MoveChain(UpdateFiredBalls([g EXCEPT !.shooter = ShooterUpdate(g.shooter, dt)],
                                         outs),
                        dt),
              dt, spawnColor)
              EXCEPT !.timeElapsed = g.timeElapsed + dt])

\* ------------------------------------------------- unreachable Ball objects
\* A Ball no reference reaches any more (an exploded or off-screen ball, the
\* balls of a replaced Chain) gives its heap slot back.
Neighbours(balls, set) ==
  (set \cup {balls[b].prev : b \in set} \cup {balls[b].next : b \in set}) \ {Null}

RECURSIVE Closure(_, _)
Closure(balls, set) ==
  IF Neighbours(balls, set) = set THEN set ELSE Closure(balls, Neighbours(balls, set))

Live(g) ==
  Closure(g.chain.balls,
          ({g.chain.head, g.chain.tail} \cup Range(g.firedBalls) \cup Range(g.pending))
          \ {Null})

RECURSIVE FreeAll(_, _)
FreeAll(balls, dead) ==
  IF dead = {} THEN balls
  ELSE FreeAll([balls EXCEPT ![Min(dead)] = Free], dead \ {Min(dead)})

Collect(g) ==
  WithChain(g, [g.chain EXCEPT !.balls = FreeAll(g.chain.balls,
                                                 DOMAIN g.chain.balls \ Live(g))])

RECURSIVE SetToSeq(_)
SetToSeq(S) == IF S = {} THEN <<>> ELSE <<Min(S)>> \o SetToSeq(S \ {Min(S)})

\* Object identities carry no meaning: the reachable Balls are renamed in the
\* order head to tail, then the others by identity.
Order(g) == GetBalls(g.chain) \o SetToSeq(Live(g) \ Range(GetBalls(g.chain)))

Rename(order, b) == IF b = Null THEN Null ELSE CHOOSE i \in DOMAIN order : order[i] = b

RECURSIVE RenameSeq(_, _)
RenameSeq(order, s) ==
  IF s = <<>> THEN <<>> ELSE <<Rename(order, Head(s))>> \o RenameSeq(order, Tail(s))

RECURSIVE RenameHeap(_, _, _)
RenameHeap(balls, order, n) ==
  IF n = 0 THEN <<>>
  ELSE Append(RenameHeap(balls, order, n - 1),
              IF n <= Len(order)
              THEN [color |-> balls[order[n]].color,
                    distanceAlongPath |-> balls[order[n]].distanceAlongPath,
                    prev |-> Rename(order, balls[order[n]].prev),
                    next |-> Rename(order, balls[order[n]].next)]
              ELSE Free)

Renamed(g, order) ==
  [g EXCEPT !.chain = [g.chain EXCEPT !.balls = RenameHeap(g.chain.balls, order, MaxBalls),
                                      !.head = Rename(order, g.chain.head),
                                      !.tail = Rename(order, g.chain.tail)],
            !.firedBalls = RenameSeq(order, g.firedBalls),
            !.pending = RenameSeq(order, g.pending)]

Canon(g) == Renamed(g, Order(g))

\* Game.initializeLevel up to the spawner reset and the new Shooter
Prepare(g, sc1, sc2) ==
  [g EXCEPT !.path = LevelPath,
            !.chain = [NewChain(g.chain.balls) EXCEPT !.velocity = BallSpeed],
            !.firedBalls = <<>>,
            !.spawner = [accumulator |-> 0],
            !.shooter = NewShooter(sc1, sc2)]

\* Game.initializeLevel from score.resetLevel on
ResetForLevel(g) ==
  [g EXCEPT !.score = ResetLevel(g.score), !.timeElapsed = 0,
            !.ballsSpawned = InitialBallCount]

\* Game.initializeLevel
InitializeLevel(g, colours, sc1, sc2) ==
  ResetForLevel(SpawnInitialBalls(Collect(Prepare(g, sc1, sc2)), colours))

\* Game.onStateChange(PLAYING), after the StateManager set the status
EnterPlaying(g, colours, sc1, sc2) ==
  InitializeLevel([g EXCEPT !.status = "PLAYING",
                            !.score = IF g.currentLevel = 1 THEN ResetGame(g.score)
                                      ELSE g.score],
                  colours, sc1, sc2)

\* ----------------------------------------------------------- the frames
G == [chain |-> chain, status |-> status, currentLevel |-> currentLevel,
      firedBalls |-> firedBalls, pending |-> pendingChainReaction, score |-> score,
      spawner |-> spawner, ballsSpawned |-> ballsSpawned, shooter |-> shooter,
      timeElapsed |-> timeElapsed, storage |-> storage,
      path |-> path, mouse |-> mouse,
      calls |-> <<>>, ok |-> TRUE, spawned |-> 0, fresh |-> Null, checked |-> <<>>,
      removed |-> [frontBall |-> Null, backBall |-> Null]]

\* the game state g becomes the state
Assign(g, l) ==
  /\ chain' = g.chain
  /\ status' = g.status
  /\ currentLevel' = g.currentLevel
  /\ firedBalls' = g.firedBalls
  /\ pendingChainReaction' = g.pending
  /\ score' = g.score
  /\ spawner' = g.spawner
  /\ ballsSpawned' = g.ballsSpawned
  /\ shooter' = g.shooter
  /\ timeElapsed' = g.timeElapsed
  /\ storage' = g.storage
  /\ path' = g.path
  /\ mouse' = g.mouse
  /\ last' = l

\* the frame's result becomes the state; updated tells whether updateGame ran,
\* inFlight keeps firedBalls under the identities the calls use, checked the
\* cascade check made in the frame
Commit(g, kind, dt, updated) ==
  /\ g.ok
  /\ Assign(Canon(g), [op |-> kind, dt |-> dt, calls |-> g.calls, updated |-> updated,
                       status |-> status, inFlight |-> g.firedBalls,
                       checked |-> g.checked])

\* the colour drawn by a spawn attempt matters only when one is due
SpawnColors(acc, dt) == IF acc + dt >= SpawnInterval THEN Colors ELSE {1}

ColourSeqs == [1..InitialBallCount -> Colors]

\* a frame that enters PLAYING (start, resume, retry, next level): the level is
\* initialised by onStateChange and updateGame runs in the same frame
EnterFrame(kind, g, dt) ==
  \E colours \in ColourSeqs, sc1 \in Colors, sc2 \in Colors :
    Commit(UpdateGame(EnterPlaying(g, colours, sc1, sc2), dt, <<>>, 1), kind, dt, TRUE)

\* MENU, click on the start button: StateManager.startGame
StartFrame ==
  /\ status = "MENU"
  /\ \E dt \in DtSet : EnterFrame("start", [G EXCEPT !.currentLevel = 1], dt)

\* handleInput while PLAYING: the swap
SwapInput(g, swap) == IF swap THEN [g EXCEPT !.shooter = Swap(g.shooter)] ELSE g

\* handleInput while PLAYING without the pause key: fire, then swap
PlayInput(g, fire, swap, newReserve) ==
  SwapInput(IF fire THEN FireShooter(g, newReserve) ELSE g, swap)

\* updateGame after the input, for every outcome of the balls in flight
PlayUpdate(g, dt, spawnColor) ==
  \E outs \in [1..Len(g.firedBalls) -> Outcomes] :
    Commit(UpdateGame(g, dt, outs, spawnColor), "play", dt, TRUE)

\* PLAYING without the pause key: aim, fire, swap, then updateGame
PlayFrame ==
  /\ status = "PLAYING"
  /\ timeElapsed < MaxTime
  /\ \E dt \in DtSet, fire \in BOOLEAN, swap \in BOOLEAN :
       /\ fire => Len(firedBalls) < MaxFired
       /\ \E newReserve \in (IF fire /\ CanFire(shooter) THEN Colors ELSE {1}),
             spawnColor \in SpawnColors(spawner.accumulator, dt) :
            PlayUpdate(PlayInput(G, fire, swap, newReserve), dt, spawnColor)

\* PLAYING with the pause key: StateManager.pause, no updateGame
PauseFrame ==
  /\ status = "PLAYING"
  /\ \E dt \in DtSet : Commit([G EXCEPT !.status = "PAUSED"], "pause", dt, FALSE)

\* PAUSED, pause key or click on the resume button: StateManager.resume
ResumeFrame ==
  /\ status = "PAUSED"
  /\ \E dt \in DtSet : EnterFrame("resume", G, dt)

\* StateManager.quitToMenu
QuitToMenu(g) == [g EXCEPT !.status = "MENU", !.currentLevel = 1]

\* PAUSED, click on the quit button
QuitFrame ==
  /\ status = "PAUSED"
  /\ \E dt \in DtSet : Commit(QuitToMenu(G), "quit", dt, FALSE)

\* WIN, click: StateManager.nextLevel, or quitToMenu after the final level
NextLevelFrame ==
  /\ status = "WIN"
  /\ \E dt \in DtSet :
       IF currentLevel >= TOTAL_LEVELS
       THEN Commit(QuitToMenu(G), "next", dt, FALSE)
       ELSE EnterFrame("next", [G EXCEPT !.currentLevel = currentLevel + 1], dt)

\* LOSE, click: StateManager.retry
RetryFrame ==
  /\ status = "LOSE"
  /\ \E dt \in DtSet : EnterFrame("retry", G, dt)

NoCall == [op |-> "init", dt |-> 0, calls |-> <<>>, updated |-> FALSE, status |-> "MENU"]

\* the state after new Game()
Init ==
  /\ chain = NewChain(EmptyHeap)
  /\ status = "MENU"
  /\ currentLevel = 1
  /\ firedBalls = <<>>
  /\ pendingChainReaction = NoPending
  /\ score = NewScore
  /\ spawner = [accumulator |-> 0]
  /\ ballsSpawned = 0
  /\ timeElapsed = 0
  /\ storage = FreshStorage
  /\ path = NoPath
  /\ mouse = NewMouse
  /\ \E c1 \in Colors, c2 \in Colors : shooter = NewShooter(c1, c2)
  /\ last = NoCall

\* one game from the menu: the level starts and is played
Next ==
  \/ StartFrame
  \/ PlayFrame

Spec == Init /\ [][Next]_vars

\* the game with its pauses, retries and level changes
GameNext ==
  \/ StartFrame
  \/ PlayFrame
  \/ PauseFrame
  \/ ResumeFrame
  \/ QuitFrame
  \/ NextLevelFrame
  \/ RetryFrame

GameSpec == Init /\ [][GameNext]_vars

\* ------------------------------------------------- the game with its pauses
\* PLAYING without the pause key, the shots of the player miss the chain: a ball
\* in flight flies on or leaves the screen
MissFrame ==
  /\ status = "PLAYING"
  /\ timeElapsed < MaxTime
  /\ \E dt \in DtSet, fire \in BOOLEAN :
       /\ fire => Len(firedBalls) < MaxFired
       /\ \E newReserve \in (IF fire /\ CanFire(shooter) THEN Colors ELSE {1}),
             spawnColor \in SpawnColors(spawner.accumulator, dt) :
            LET g == PlayInput(G, fire, FALSE, newReserve)
            IN  \E outs \in [1..Len(g.firedBalls) -> {Fly, Off}] :
                  Commit(UpdateGame(g, dt, outs, spawnColor), "play", dt, TRUE)

\* a level is started and played, paused with the pause key and resumed
PauseNext ==
  \/ StartFrame
  \/ MissFrame
  \/ PauseFrame
  \/ ResumeFrame

PauseSpec == Init /\ [][PauseNext]_vars

\* ------------------------------------------------- the game with aimed shots
\* where a ball in flight is when updateFiredBalls looks at it: off the screen,
\* or at a point near the track
OffScreen == <<"off">>
At(x, y) == <<"at", x, y>>
Aims ==
  {OffScreen}
    \cup {At(x, y) : x \in {(k - 1) * BALL_RADIUS : k \in 0..(TotalLength \div BALL_RADIUS + 2)},
                     y \in {0, MaxOffset}}

FiredPos(aim) == [x |-> aim[2], y |-> aim[3]]

\* what updateFiredBalls finds for a ball in flight at aim
AimOutcome(c, aim) ==
  IF aim[1] = "off" THEN Off
  ELSE IF CheckBallChainCollision(FiredPos(aim), c).collidedWith = Null THEN Fly
  ELSE Hit(CheckBallChainCollision(FiredPos(aim), c).collidedWith,
           CheckBallChainCollision(FiredPos(aim), c).insertBefore)

\* the call of checkBallChainCollision joins the frame's calls: it changes
\* neither the chain nor the fired ball
LogCollision(g, aim) ==
  IF ~g.ok \/ aim[1] = "off" THEN g
  ELSE [g EXCEPT !.calls =
          Append(g.calls,
                 [op |-> "checkBallChainCollision", pre |-> g.chain, post |-> g.chain,
                  firedPos |-> FiredPos(aim),
                  result |-> CheckBallChainCollision(FiredPos(aim), g.chain)])]

\* the for loop of Game.updateFiredBalls, each ball met where it is aimed
RECURSIVE AimLoop(_, _, _, _)
AimLoop(g, fired, aims, i) ==
  IF i > Len(fired) THEN g
  ELSE AimLoop(ProcessFired(LogCollision(g, aims[i]), fired[i],
                            AimOutcome(g.chain, aims[i])),
               fired, aims, i + 1)

\* the outcomes of the balls in flight, each against the chain as the balls
\* before it left it
RECURSIVE AimOutcomes(_, _, _, _)
AimOutcomes(g, fired, aims, i) ==
  IF i > Len(fired) THEN <<>>
  ELSE <<AimOutcome(g.chain, aims[i])>>
       \o AimOutcomes(ProcessFired(g, fired[i], AimOutcome(g.chain, aims[i])),
                      fired, aims, i + 1)

AimUpdateFiredBalls(g, aims) ==
  [AimLoop(g, g.firedBalls, aims, 1)
     EXCEPT !.firedBalls = Filter(g.firedBalls, AimOutcomes(g, g.firedBalls, aims, 1), 1)]

\* Game.updateGame
AimUpdateGame(g, dt, aims, spawnColor) ==
  CheckEnd([UpdateSpawning(
              MoveChain(AimUpdateFiredBalls([g EXCEPT !.shooter = ShooterUpdate(g.shooter, dt)],
                                            aims),
                        dt),
              dt, spawnColor)
              EXCEPT !.timeElapsed = g.timeElapsed + dt])

AimUpdate(g, dt, spawnColor) ==
  \E aims \in [1..Len(g.firedBalls) -> Aims] :
    Commit(AimUpdateGame(g, dt, aims, spawnColor), "play", dt, TRUE)

\* PLAYING without the pause key: aim, fire, swap, then updateGame
AimFrame ==
  /\ status = "PLAYING"
  /\ timeElapsed < MaxTime
  /\ \E dt \in DtSet, fire \in BOOLEAN, swap \in BOOLEAN :
       /\ fire => Len(firedBalls) < MaxFired
       /\ \E newReserve \in (IF fire /\ CanFire(shooter) THEN Colors ELSE {1}),
             spawnColor \in SpawnColors(spawner.accumulator, dt) :
            AimUpdate(PlayInput(G, fire, swap, newReserve), dt, spawnColor)

AimNext ==
  \/ StartFrame
  \/ AimFrame

AimSpec == Init /\ [][AimNext]_vars

\* ------------------------------------------------------ the Chain API alone
\* the Chain of a level before any ball is spawned: new Chain(), then
\* chain.velocity = ballSpeed
ChainInit ==
  /\ chain = [NewChain(EmptyHeap) EXCEPT !.velocity = BallSpeed]
  /\ status = "MENU"
  /\ currentLevel = 1
  /\ firedBalls = <<>>
  /\ pendingChainReaction = NoPending
  /\ score = NewScore
  /\ spawner = [accumulator |-> 0]
  /\ ballsSpawned = 0
  /\ timeElapsed = 0
  /\ storage = FreshStorage
  /\ path = LevelPath
  /\ mouse = NewMouse
  /\ shooter = NewShooter(1, 1)
  /\ last = NoCall

\* the sub-sequences of a sequence
RECURSIVE SubSeqs(_)
SubSeqs(s) ==
  IF s = <<>> THEN {<<>>}
  ELSE SubSeqs(Tail(s)) \cup {<<Head(s)>> \o t : t \in SubSeqs(Tail(s))}

\* the calls explored keep every ball of the chain within MaxReach of the sink
Bounded(c) == \A b \in Range(GetBalls(c)) : c.balls[b].distanceAlongPath <= MaxReach

ApiCommit(g, dt) == Bounded(g.chain) /\ Commit(g, "api", dt, FALSE)

\* chain.insertBall(new Ball(color, distance), afterBall): Chain never reads the color
ApiInsert ==
  /\ GetLength(chain) < MaxLength
  /\ \E distance \in DistSet, afterBall \in Range(GetBalls(chain)) \cup {Null} :
       ApiCommit(LogInsert(New(G, 1, distance), Min(FreeSlots(chain.balls)), afterBall), 0)

\* chain.removeBall(ball) for a ball of the chain
ApiRemoveBall ==
  \E ball \in Range(GetBalls(chain)) : ApiCommit(LogRemoveBall(G, ball), 0)

\* chain.removeBalls(balls) for balls of the chain, none twice
ApiRemoveBalls ==
  \E s \in SubSeqs(GetBalls(chain)) : ApiCommit(LogRemoveBalls(G, s), 0)

\* chain.update(dt), while no ball is beyond the sink
ApiUpdate ==
  /\ \A b \in Range(GetBalls(chain)) : chain.balls[b].distanceAlongPath >= 0
  /\ \E dt \in DtSet : ApiCommit(LogUpdate(G, dt), dt)

\* chain.clear()
ApiClear ==
  /\ Bounded(chain)
  /\ ApiCommit(LogClear(G), 0)

ChainNext ==
  \/ ApiInsert
  \/ ApiRemoveBall
  \/ ApiRemoveBalls
  \/ ApiUpdate
  \/ ApiClear

ChainSpec == ChainInit /\ [][ChainNext]_vars

\* ------------------------------------------- the insertions of the engine
\* BallSpawner.spawnBall with room at the spawn point
InsSpawn ==
  /\ GetLength(chain) < MaxChain
  /\ \E color \in Colors :
       /\ SpawnBall(G, color).spawned = 1
       /\ Commit(SpawnBall(G, color), "spawn", 0, FALSE)

\* the fired ball, allocated last, is inserted where it collided
Project(g, collidedWith, insertBefore) ==
  InsertFired(SetDistance(g, g.fresh, InsertionDistance(g.chain, collidedWith, insertBefore)),
              g.fresh, collidedWith, insertBefore)

\* a projectile collides with a ball of the chain: the insertion of updateFiredBalls
InsProjectile ==
  /\ GetLength(chain) < MaxChain
  /\ \E color \in Colors, collidedWith \in Range(GetBalls(chain)), insertBefore \in BOOLEAN :
       Commit(Project(New(G, color, 0), collidedWith, insertBefore), "projectile", 0, FALSE)

\* a tick without insertion: the normal advance, while the head is short of the sink
InsAdvance ==
  /\ ~IsEmpty(chain)
  /\ ~CheckHoleCollision(chain)
  /\ \E dt \in DtSet : Commit(LogUpdate(G, dt), "advance", dt, FALSE)

InsNext ==
  \/ InsSpawn
  \/ InsProjectile
  \/ InsAdvance

InsSpec == ChainInit /\ [][InsNext]_vars

\* ------------------------------------------------- findMatch on its own
\* the chain of a level right after spawnInitialBalls drew the colours
Spawned(colours) ==
  SpawnInitialBalls([chain |-> [NewChain(EmptyHeap) EXCEPT !.velocity = BallSpeed],
                     calls |-> <<>>, ok |-> TRUE, fresh |-> Null], colours).chain

MatchInit ==
  /\ \E n \in 1..MaxRun : \E colours \in [1..n -> Colors] : chain = Spawned(colours)
  /\ status = "PLAYING"
  /\ currentLevel = 1
  /\ firedBalls = <<>>
  /\ pendingChainReaction = NoPending
  /\ score = NewScore
  /\ spawner = [accumulator |-> 0]
  /\ ballsSpawned = 0
  /\ timeElapsed = 0
  /\ storage = FreshStorage
  /\ path = LevelPath
  /\ mouse = NewMouse
  /\ shooter = NewShooter(1, 1)
  /\ last = NoCall

\* findMatch(startBall) for a ball of the chain: the call changes nothing
FindMatchCall ==
  \E startBall \in Range(GetBalls(chain)) :
    Commit(Logged(G, Call("findMatch", chain, chain, startBall, Null,
                          FindMatch(chain.balls, startBall), 0, Null, Null)),
           "findMatch", 0, FALSE)

MatchNext == FindMatchCall

MatchSpec == MatchInit /\ [][MatchNext]_vars

\* ------------------------------------------ checkChainReaction on its own
\* checkChainReaction(frontBall, backBall) for balls of the chain or null: the
\* call changes nothing
ReactionCall ==
  \E frontBall \in Range(GetBalls(chain)) \cup {Null},
     backBall \in Range(GetBalls(chain)) \cup {Null} :
    Commit(Logged(G, Call("checkChainReaction", chain, chain, Null, Null,
                          CheckChainReaction(chain.balls, frontBall, backBall),
                          0, frontBall, backBall)),
           "checkChainReaction", 0, FALSE)

ReactionNext == ReactionCall

ReactionSpec == MatchInit /\ [][ReactionNext]_vars

\* ------------------------------------------------- BallSpawner on its own
\* the deltaTime of a call: less than an interval, one interval, more than two
SpawnDts == {FrameTime, SpawnInterval, 2 * SpawnInterval + FrameTime}

\* spawner.update(dt, chain, path, maxBalls) that took the game from pre to r:
\* the chain and the accumulator before and after, and the value returned
SpawnerCall(pre, r, dt, maxBalls) ==
  [op |-> "spawnerUpdate", pre |-> pre.chain, post |-> r.chain, dt |-> dt,
   maxBalls |-> maxBalls, accumulator |-> pre.spawner.accumulator,
   remaining |-> r.spawner.accumulator, spawned |-> r.spawned]

SpawnerCommit(pre, r, dt, maxBalls) ==
  /\ r.spawner.accumulator <= MaxAccumulator
  /\ Commit([r EXCEPT !.calls = Append(@, SpawnerCall(pre, r, dt, maxBalls))],
            "spawnerUpdate", dt, FALSE)

\* spawner.update for a capacity between 1 and MaxChain
SpawnerTick ==
  \E dt \in SpawnDts, maxBalls \in 1..MaxChain :
    \E r \in {SpawnerUpdate(G, dt, 1, maxBalls)} : SpawnerCommit(G, r, dt, maxBalls)

\* chain.update between two calls, while the head is short of the sink
SpawnerAdvance ==
  /\ ~IsEmpty(chain)
  /\ ~CheckHoleCollision(chain)
  /\ \E dt \in DtSet : Commit(LogUpdate(G, dt), "advance", dt, FALSE)

SpawnerNext ==
  \/ SpawnerTick
  \/ SpawnerAdvance

SpawnerSpec == ChainInit /\ [][SpawnerNext]_vars

\* ------------------------------------------------ StateManager on its own
\* transitionTo: the status is written and the onStateChange callback is
\* called; here the callback only records the status it is given.
\* (GameState.score, which startGame, win and lose touch, is a record of its own
\* whose current no code sets to anything but 0; it is left out.)
TransitionTo(g, newStatus) ==
  [g EXCEPT !.status = newStatus,
            !.calls = Append(g.calls, [op |-> "onStateChange", newStatus |-> newStatus])]

StartGame(g) ==
  IF g.status # "MENU" THEN g
  ELSE TransitionTo([g EXCEPT !.currentLevel = 1], "PLAYING")

StartLevel(g, levelNumber) == TransitionTo([g EXCEPT !.currentLevel = levelNumber], "PLAYING")

Pause(g) == IF g.status # "PLAYING" THEN g ELSE TransitionTo(g, "PAUSED")

Resume(g) == IF g.status # "PAUSED" THEN g ELSE TransitionTo(g, "PLAYING")

TogglePause(g) ==
  IF g.status = "PLAYING" THEN Pause(g)
  ELSE IF g.status = "PAUSED" THEN Resume(g)
  ELSE g

Win(g) == IF g.status # "PLAYING" THEN g ELSE TransitionTo(g, "WIN")

Lose(g) == IF g.status # "PLAYING" THEN g ELSE TransitionTo(g, "LOSE")

NextLevel(g) ==
  IF g.status # "WIN" THEN g
  ELSE IF g.currentLevel < TOTAL_LEVELS
       THEN TransitionTo([g EXCEPT !.currentLevel = g.currentLevel + 1], "PLAYING")
       ELSE TransitionTo(g, "MENU")

Retry(g) ==
  IF g.status # "LOSE" /\ g.status # "WIN" THEN g ELSE TransitionTo(g, "PLAYING")

\* quitToMenu: resetForNewGame, then the transition
QuitAndNotify(g) == TransitionTo(QuitToMenu(g), "MENU")

\* the call is made; last keeps the method and the status it found
ManagerCommit(g, op) ==
  Assign(g, [op |-> op, dt |-> 0, calls |-> g.calls, updated |-> FALSE,
             status |-> status])

ManagerStartGame == \E g \in {G} : ManagerCommit(StartGame(g), "startGame")

ManagerStartLevel ==
  \E g \in {G}, levelNumber \in 1..TOTAL_LEVELS :
    ManagerCommit(StartLevel(g, levelNumber), "startLevel")

ManagerPause == \E g \in {G} : ManagerCommit(Pause(g), "pause")

ManagerResume == \E g \in {G} : ManagerCommit(Resume(g), "resume")

ManagerTogglePause == \E g \in {G} : ManagerCommit(TogglePause(g), "togglePause")

ManagerWin == \E g \in {G} : ManagerCommit(Win(g), "win")

ManagerLose == \E g \in {G} : ManagerCommit(Lose(g), "lose")

ManagerNextLevel == \E g \in {G} : ManagerCommit(NextLevel(g), "nextLevel")

ManagerRetry == \E g \in {G} : ManagerCommit(Retry(g), "retry")

ManagerQuitToMenu == \E g \in {G} : ManagerCommit(QuitAndNotify(g), "quitToMenu")

ManagerNext ==
  \/ ManagerStartGame
  \/ ManagerStartLevel
  \/ ManagerPause
  \/ ManagerResume
  \/ ManagerTogglePause
  \/ ManagerWin
  \/ ManagerLose
  \/ ManagerNextLevel
  \/ ManagerRetry
  \/ ManagerQuitToMenu

ManagerSpec == Init /\ [][ManagerNext]_vars

\* ----------------------------------------------------- Shooter on its own
\* the deltaTime of an update: half a frame and a frame
ShooterDts == {FrameTime \div 2, FrameTime}

\* the time followed since the last successful fire
SinceCap == SHOOTER_COOLDOWN + FrameTime

\* one call of a Shooter method: the shooter before and after, the argument,
\* the ball returned, and whether and how long ago a fire succeeded before
ShooterCall(op, pre, post, dt, ball) ==
  [op |-> op, pre |-> pre, post |-> post, dt |-> dt, ball |-> ball,
   fired |-> last.fired, since |-> last.since]

\* the call takes effect; fired and since follow the successful fires and the
\* time given to update after them
ShooterCommit(call) ==
  /\ shooter' = call.post
  /\ last' = [op |-> call.op, dt |-> call.dt, calls |-> <<call>>, updated |-> FALSE,
              status |-> status,
              fired |-> (last.fired \/ call.ball # Null),
              since |-> IF call.ball # Null THEN 0
                        ELSE Min({SinceCap, last.since + call.dt})]
  /\ UNCHANGED <<chain, status, currentLevel, firedBalls, pendingChainReaction,
                 score, spawner, ballsSpawned, timeElapsed, storage, path, mouse>>

\* new Shooter(x, y): two colours are drawn, no fire yet
ShooterInit ==
  /\ chain = NewChain(EmptyHeap)
  /\ status = "MENU"
  /\ currentLevel = 1
  /\ firedBalls = <<>>
  /\ pendingChainReaction = NoPending
  /\ score = NewScore
  /\ spawner = [accumulator |-> 0]
  /\ ballsSpawned = 0
  /\ timeElapsed = 0
  /\ storage = FreshStorage
  /\ path = NoPath
  /\ mouse = NewMouse
  /\ \E c1 \in Colors, c2 \in Colors : shooter = NewShooter(c1, c2)
  /\ last = [op |-> "init", dt |-> 0, calls |-> <<>>, updated |-> FALSE,
             status |-> "MENU", fired |-> FALSE, since |-> 0]

\* shooter.fire(): newReserve is the colour drawn for the next reserve ball
ShooterFireCall ==
  \E sh \in {shooter}, newReserve \in Colors :
    ShooterCommit(ShooterCall("fire", sh, TryFire(sh, newReserve), 0, FiredBall(sh)))

\* shooter.swap()
ShooterSwapCall ==
  \E sh \in {shooter} : ShooterCommit(ShooterCall("swap", sh, Swap(sh), 0, Null))

\* shooter.update(dt)
ShooterUpdateCall ==
  \E sh \in {shooter}, dt \in ShooterDts :
    ShooterCommit(ShooterCall("shooterUpdate", sh, ShooterUpdate(sh, dt), dt, Null))

ShooterNext ==
  \/ ShooterFireCall
  \/ ShooterSwapCall
  \/ ShooterUpdateCall

ShooterSpec == ShooterInit /\ [][ShooterNext]_vars

\* ------------------------------------------------------ Score on its own
\* one call of a Score method: the object before and after, the argument and
\* the value returned
ScoreCall(op, pre, post, ballCount, points) ==
  [op |-> op, pre |-> pre, post |-> post, ballCount |-> ballCount, points |-> points]

\* the call takes effect and leaves localStorage as st
ScoreCommit(call, st) ==
  /\ call.post.current <= MaxScore
  /\ call.post.total <= MaxScore
  /\ call.post.chainMultiplier <= MaxMultiplier
  /\ score' = call.post
  /\ storage' = st
  /\ last' = [op |-> call.op, dt |-> 0, calls |-> <<call>>, updated |-> FALSE,
              status |-> status, storage |-> storage]
  /\ UNCHANGED <<chain, status, currentLevel, firedBalls, pendingChainReaction,
                 spawner, ballsSpawned, shooter, timeElapsed, path, mouse>>

\* the characters of the strings found in localStorage: a sign, a digit,
\* a letter
StoredChars == {"-", "7", "x"}

RECURSIVE Strings(_)
Strings(n) ==
  IF n = 0 THEN {<<>>}
  ELSE Strings(n - 1) \cup {Append(str, ch) : str \in Strings(n - 1), ch \in StoredChars}

\* localStorage when the page is loaded: unusable, without the item, or with
\* any string under storageKey
StorageStates ==
  {[available |-> FALSE, item |-> NoItem], FreshStorage}
    \cup {[available |-> TRUE, item |-> Item(str)] : str \in Strings(MaxStored)}

\* new Score() on any localStorage
ScoreInit ==
  /\ chain = NewChain(EmptyHeap)
  /\ status = "MENU"
  /\ currentLevel = 1
  /\ firedBalls = <<>>
  /\ pendingChainReaction = NoPending
  /\ spawner = [accumulator |-> 0]
  /\ ballsSpawned = 0
  /\ timeElapsed = 0
  /\ shooter = NewShooter(1, 1)
  /\ storage \in StorageStates
  /\ path = NoPath
  /\ mouse = NewMouse
  /\ score = ConstructScore(storage)
  /\ last = [op |-> "init", dt |-> 0, calls |-> <<>>, updated |-> FALSE,
             status |-> "MENU", storage |-> storage]

\* the page is loaded again: new Score() on the localStorage left behind
ScoreConstruct ==
  \E st \in {storage} :
    ScoreCommit(ScoreCall("construct", score, ConstructScore(st), 0, 0), st)

ScoreResetGame ==
  \E sc \in {score} : ScoreCommit(ScoreCall("resetGame", sc, ResetGame(sc), 0, 0), storage)

ScoreAddMatchPoints ==
  \E sc \in {score}, ballCount \in 0..MaxCount :
    ScoreCommit(ScoreCall("addMatchPoints", sc, AddMatchPoints(sc, ballCount),
                          ballCount, MatchPoints(sc, ballCount)), storage)

ScoreIncrementChainMultiplier ==
  \E sc \in {score} :
    ScoreCommit(ScoreCall("incrementChainMultiplier", sc, IncrementChainMultiplier(sc), 0, 0),
                storage)

ScoreResetChainMultiplier ==
  \E sc \in {score} :
    ScoreCommit(ScoreCall("resetChainMultiplier", sc, ResetChainMultiplier(sc), 0, 0),
                storage)

ScoreCompleteLevel ==
  \E sc \in {score} :
    ScoreCommit(ScoreCall("completeLevel", sc, CompleteLevel(sc), 0, 0),
                CompleteLevelStorage(sc, storage))

ScoreResetLevel ==
  \E sc \in {score} :
    ScoreCommit(ScoreCall("resetLevel", sc, ResetLevel(sc), 0, 0), storage)

ScoreNext ==
  \/ ScoreAddMatchPoints
  \/ ScoreIncrementChainMultiplier
  \/ ScoreResetChainMultiplier
  \/ ScoreCompleteLevel
  \/ ScoreResetLevel
  \/ ScoreResetGame
  \/ ScoreConstruct

ScoreSpec == ScoreInit /\ [][ScoreNext]_vars

\* ---------------------------------------- getWeightedRandomColor on its own
\* BallSpawner.availableColors: the palette of the level, in its order
Palette == [i \in 1..NumColors |-> i]

\* Math.random() is draw / Resolution for a draw of 0..Resolution-1; the grid
\* is finer than any total weight
Resolution == 2 * (MaxRun + NumColors)
Draws == 0..(Resolution - 1)

\* countChainColors(chain).get(color) ?? 0
ColorCount(c, color) == Cardinality({b \in Range(GetBalls(c)) : c.balls[b].color = color})

\* a weight without the base weight
WeightNoBase(c, color) == ColorCount(c, color)

\* "(colorCounts.get(color) ?? 0) + baseWeight"
Weight(c, color) == ColorCount(c, color) + 1

\* the first loop: totalWeight after the colours i..
RECURSIVE TotalWeight(_, _)
TotalWeight(c, i) ==
  IF i > Len(Palette) THEN 0 ELSE Weight(c, Palette[i]) + TotalWeight(c, i + 1)

\* getRandomColor: Math.floor(Math.random() * availableColors.length)
GetRandomColor(draw) == Palette[(draw * Len(Palette)) \div Resolution + 1]

\* the second loop; random is kept times Resolution. by tells where the colour
\* was returned: in the loop, or by the fallback after it with a draw of its own
RECURSIVE PickLoop(_, _, _, _)
PickLoop(c, random, i, draw2) ==
  IF i > Len(Palette) THEN [color |-> GetRandomColor(draw2), by |-> "fallback"]
  ELSE IF random - Weight(c, Palette[i]) * Resolution <= 0
       THEN [color |-> Palette[i], by |-> "loop"]
       ELSE PickLoop(c, random - Weight(c, Palette[i]) * Resolution, i + 1, draw2)

\* getWeightedRandomColor for the draws made in the call
GetWeightedRandomColor(c, draw, draw2) ==
  IF IsEmpty(c) THEN [color |-> GetRandomColor(draw), by |-> "empty"]
  ELSE PickLoop(c, draw * TotalWeight(c, 1), 1, draw2)

\* spawner.getWeightedRandomColor(chain): the call changes nothing
WeightedColorCall ==
  \E draw \in Draws, draw2 \in Draws :
    Commit([G EXCEPT !.calls =
              <<[op |-> "getWeightedRandomColor", pre |-> chain, post |-> chain,
                 draw |-> draw,
                 result |-> GetWeightedRandomColor(chain, draw, draw2)]>>],
           "getWeightedRandomColor", 0, FALSE)

ColorNext == WeightedColorCall

ColorSpec == MatchInit /\ [][ColorNext]_vars

\* ------------------------------------------------------- Path on its own
\* no Path is constructed yet
PathInit ==
  /\ chain = NewChain(EmptyHeap)
  /\ status = "MENU"
  /\ currentLevel = 1
  /\ firedBalls = <<>>
  /\ pendingChainReaction = NoPending
  /\ score = NewScore
  /\ spawner = [accumulator |-> 0]
  /\ ballsSpawned = 0
  /\ timeElapsed = 0
  /\ storage = FreshStorage
  /\ path = NoPath
  /\ mouse = NewMouse
  /\ shooter = NewShooter(1, 1)
  /\ last = NoCall

\* one call on the Path: the object before it, the arguments and the result
PathCommit(p, call) ==
  Commit([G EXCEPT !.path = p, !.calls = <<call>>], call.op, 0, FALSE)

\* "path = new Path(id, controlPoints)" for any number of control points: when
\* the constructor throws nothing is assigned
PathConstruct ==
  \E points \in 0..MaxPoints :
    \E lengths \in [1..Steps(points) -> 0..MaxSegmentLength] :
      \E r \in {ConstructPath(points, lengths)} :
        PathCommit(IF r.error THEN path ELSE r.path,
                   [op |-> "construct", pre |-> path, points |-> points,
                    error |-> r.error, result |-> r.path])

\* getPointAtT(t), also for t outside 0..1
PathGetPointAtT ==
  /\ path # NoPath
  /\ \E k \in (-1)..(TSteps + 1) :
       PathCommit(path, [op |-> "getPointAtT", pre |-> path, t |-> k,
                         result |-> GetPointAtT(path, k)])

\* distanceToT(distance), also for distances off the path
PathDistanceToT ==
  /\ path # NoPath
  /\ \E distance \in (-1)..(path.totalLength + 1) :
       PathCommit(path, [op |-> "distanceToT", pre |-> path, distance |-> distance,
                         result |-> DistanceToT(path, distance)])

PathNext ==
  \/ PathConstruct
  \/ PathGetPointAtT
  \/ PathDistanceToT

PathSpec == PathInit /\ [][PathNext]_vars

\* ---------------------------------------------------- MouseInput on its own
\* the DOM events of the canvas and the polls of Game.handleInput, in any order;
\* last counts the left-button presses and, for the latest of them, the polls in
\* which isFirePressed returned true
MouseInit ==
  /\ chain = NewChain(EmptyHeap)
  /\ status = "MENU"
  /\ currentLevel = 1
  /\ firedBalls = <<>>
  /\ pendingChainReaction = NoPending
  /\ score = NewScore
  /\ spawner = [accumulator |-> 0]
  /\ ballsSpawned = 0
  /\ timeElapsed = 0
  /\ storage = FreshStorage
  /\ path = NoPath
  /\ mouse = NewMouse
  /\ shooter = NewShooter(1, 1)
  /\ last = [op |-> "new", button |-> 0, fire |-> FALSE, swap |-> FALSE,
             presses |-> 0, trues |-> 0]

\* what the mouse leaves alone
game == <<chain, status, currentLevel, firedBalls, pendingChainReaction, score,
          spawner, ballsSpawned, shooter, timeElapsed, storage, path>>

Held(m, button) ==
  IF button = 0 THEN m.leftClickPressed
  ELSE IF button = 2 THEN m.rightClickPressed
  ELSE FALSE

\* mousedown on the canvas: a button that is not held goes down
MouseDown ==
  \E button \in {0, 1, 2} :
    /\ ~Held(mouse, button)
    /\ button = 0 => last.presses < MaxPresses
    /\ mouse' = HandleMouseDown(mouse, button)
    /\ last' = [last EXCEPT !.op = "mousedown", !.button = button,
                            !.fire = FALSE, !.swap = FALSE,
                            !.presses = IF button = 0 THEN @ + 1 ELSE @,
                            !.trues = IF button = 0 THEN 0 ELSE @]
    /\ UNCHANGED game

\* mouseup on the canvas
MouseUp ==
  \E button \in {0, 1, 2} :
    /\ mouse' = HandleMouseUp(mouse, button)
    /\ last' = [last EXCEPT !.op = "mouseup", !.button = button,
                            !.fire = FALSE, !.swap = FALSE]
    /\ UNCHANGED game

\* the pointer leaves the canvas
MouseLeave ==
  /\ mouse' = HandleMouseLeave(mouse)
  /\ last' = [last EXCEPT !.op = "mouseleave", !.button = 0,
                          !.fire = FALSE, !.swap = FALSE]
  /\ UNCHANGED game

\* the history after a poll of isFirePressed on m
Polled(m, op, swap) ==
  [last EXCEPT !.op = op, !.button = 0, !.fire = FirePressed(m), !.swap = swap,
               !.trues = IF FirePressed(m) THEN @ + 1 ELSE @]

\* handleInput in MENU, PAUSED, WIN or LOSE: isFirePressed, then update
ClickPoll ==
  /\ mouse' = MouseUpdate(IsFirePressed(mouse))
  /\ last' = Polled(mouse, "click", FALSE)
  /\ UNCHANGED game

\* handleInput while PLAYING without the pause key: isFirePressed, isSwapPressed,
\* then update
PlayPoll ==
  /\ mouse' = MouseUpdate(IsSwapPressed(IsFirePressed(mouse)))
  /\ last' = Polled(mouse, "play", SwapPressed(mouse))
  /\ UNCHANGED game

\* handleInput while PLAYING with the pause key, or PAUSED with it: update alone
KeyPoll ==
  /\ mouse' = MouseUpdate(mouse)
  /\ last' = [last EXCEPT !.op = "key", !.button = 0, !.fire = FALSE, !.swap = FALSE]
  /\ UNCHANGED game

MouseNext ==
  \/ MouseDown
  \/ MouseUp
  \/ MouseLeave
  \/ ClickPoll
  \/ PlayPoll
  \/ KeyPoll

MouseSpec == MouseInit /\ [][MouseNext]_vars

\* ------------------------------------------------------------ the claims
Distance(c, b) == c.balls[b].distanceAlongPath

\* the Chain calls of the last frame that are calls of op
CallsOf(op) == {e \in Range(last.calls) : e.op = op}

\* the balls behind ball b of chain c, and b with them
Behind(c, b) == Range(Walk(c.balls, c.balls[b].next))
FromBall(c, b) == Range(Walk(c.balls, b))

Ascending(c) ==
  \A i \in 1..(GetLength(c) - 1) :
    Distance(c, GetBalls(c)[i]) < Distance(c, GetBalls(c)[i + 1])

\* C1: in every chain state reachable from level initialisation, the walk from
\* head to tail meets strictly increasing distances.
C1_HeadToTailAscending == Ascending(chain)

Spaced(c) ==
  \A i \in 1..(GetLength(c) - 1) :
    Distance(c, GetBalls(c)[i + 1]) - Distance(c, GetBalls(c)[i]) >= BALL_RADIUS * 2

\* C2: from the empty chain, after any sequence of spawns after the tail and of
\* projectile insertions before or after a collided ball, every adjacent pair is
\* at least 2 * BALL_RADIUS apart, the next ball being the farther one.
C2_AdjacentSpacing == Spaced(chain)

InsertEffect(e) ==
  /\ \A x \in FromBall(e.post, e.ball) :
       e.post.balls[x].next # Null
         => Distance(e.post, e.post.balls[x].next) >= Distance(e.post, x) + BALL_RADIUS * 2
  /\ \A x \in Range(GetBalls(e.post)) : Distance(e.post, x) >= Distance(e.pre, x)
  /\ \A x \in Range(GetBalls(e.post)) \ Behind(e.post, e.ball) :
       Distance(e.post, x) = Distance(e.pre, x)

\* C3: after insertBall every ball from the inserted one to the tail has its
\* successor at least 2 * BALL_RADIUS farther; no distance decreased; the balls
\* on the head side of the inserted ball and the inserted ball kept theirs.
C3_InsertBallEffect == \A e \in CallsOf("insertBall") : InsertEffect(e)

\* an insertion at the head that pushed two balls, the second because of the first
C3_Witness ==
  \E e \in CallsOf("insertBall") :
    /\ e.afterBall = Null
    /\ Cardinality({x \in Behind(e.post, e.ball) :
                      Distance(e.post, x) > Distance(e.pre, x)}) >= 2

WellFormed(c) ==
  /\ (c.head = Null) = (c.tail = Null)
  /\ (c.head = Null) = (GetLength(c) = 0)
  /\ c.head # Null =>
       /\ c.balls[c.head].prev = Null
       /\ c.balls[c.tail].next = Null
       /\ \A x \in Range(GetBalls(c)) :
            c.balls[x].next # Null => c.balls[c.balls[x].next].prev = x
       /\ GetBalls(c)[GetLength(c)] = c.tail

\* C4: after any sequence of insertBall, removeBall, removeBalls and clear, head
\* is null iff tail is null iff the length is 0; a non-empty chain has
\* head.prev = null, tail.next = null, x.next.prev = x for every ball with a
\* successor, and its tail is met walking from the head; an insertion into the
\* empty chain leaves one ball that is head and tail.
C4_ListStructure ==
  /\ WellFormed(chain)
  /\ \A e \in Range(last.calls) : WellFormed(e.post)
  /\ \A e \in CallsOf("insertBall") :
       e.pre.head = Null
         => e.post.head = e.ball /\ e.post.tail = e.ball /\ GetLength(e.post) = 1

\* removeBalls took the head and the tail of a chain of three
C4_Witness ==
  \E e \in CallsOf("removeBalls") :
    /\ GetLength(e.pre) = 3
    /\ Range(e.balls) = {e.pre.head, e.pre.tail}
    /\ GetLength(e.post) = 1
    /\ e.post.head = e.post.tail

\* the gap state of a chain
GapState(c) == <<c.splitPoint, c.backVelocity, c.isClosingGap>>

\* removeBalls took the balls a..b of the list L of its chain
GroupEffect(e, L, a, b) ==
  /\ GetBalls(e.post) = SubSeq(L, 1, a - 1) \o SubSeq(L, b + 1, Len(L))
  /\ e.frontBall = (IF a = 1 THEN Null ELSE L[a - 1])
  /\ e.backBall = (IF b = Len(L) THEN Null ELSE L[b + 1])
  /\ IF e.frontBall # Null /\ e.backBall # Null
     THEN GapState(e.post) = <<<<Distance(e.pre, e.frontBall) + BALL_RADIUS * 2>>,
                               -SNAP_BACK_SPEED, TRUE>>
     ELSE GapState(e.post) = GapState(e.pre)

\* C5: removeBalls on a non-empty contiguous group of resident balls unlinks
\* exactly those, returns the ball before the group as frontBall and the ball
\* after it as backBall (null at an end), and starts gap closing iff both exist,
\* with splitPoint = frontBall.distance + 2 * BALL_RADIUS and backVelocity =
\* -SNAP_BACK_SPEED; with an empty list it returns nulls and changes nothing.
C5_RemoveBallsBoundaries ==
  \A e \in CallsOf("removeBalls") :
    /\ e.balls = <<>> => e.post = e.pre /\ e.frontBall = Null /\ e.backBall = Null
    /\ \A a \in 1..GetLength(e.pre), b \in 1..GetLength(e.pre) :
         (a <= b /\ Range(e.balls) = {GetBalls(e.pre)[i] : i \in a..b})
           => GroupEffect(e, GetBalls(e.pre), a, b)

\* the first ball of the list at or beyond the split, Null if none
FirstBeyond(c) ==
  IF \E i \in 1..GetLength(c) : Distance(c, GetBalls(c)[i]) >= c.splitPoint[1]
  THEN GetBalls(c)[Min({i \in 1..GetLength(c) :
                         Distance(c, GetBalls(c)[i]) >= c.splitPoint[1]})]
  ELSE Null

\* update(dt) met an active gap with a split
GapStep(e) == e.pre.isClosingGap /\ e.pre.splitPoint # NoSplit

\* after the step of e the back ball bs is within 2 * BALL_RADIUS of its predecessor
Closes(e, bs) ==
  /\ bs # Null
  /\ e.pre.balls[bs].prev # Null
  /\ Distance(e.pre, bs) + Px(e.pre.backVelocity, e.dt)
       - Distance(e.pre, e.pre.balls[bs].prev) <= BALL_RADIUS * 2

Snapped(e, bs) ==
  /\ \A x \in FromBall(e.pre, bs) :
       Distance(e.post, x) = Distance(e.post, e.pre.balls[x].prev) + BALL_RADIUS * 2
  /\ GapState(e.post) = <<NoSplit, 0, FALSE>>

\* C6: when after a gap-closing step the first ball at or beyond the split is
\* within 2 * BALL_RADIUS of its predecessor, it is placed exactly 2 * BALL_RADIUS
\* after the predecessor, so is every ball behind it after its own predecessor,
\* and the gap state is cleared.
C6_GapClosingCompletion ==
  \A e \in CallsOf("update") :
    (GapStep(e) /\ Closes(e, FirstBeyond(e.pre))) => Snapped(e, FirstBeyond(e.pre))

\* a gap closed on a back ball that overshot, with a ball behind it re-packed
C6_Witness ==
  \E e \in CallsOf("update") :
    /\ GapStep(e)
    /\ Closes(e, FirstBeyond(e.pre))
    /\ e.pre.balls[FirstBeyond(e.pre)].next # Null
    /\ Distance(e.post, FirstBeyond(e.pre))
         # Distance(e.pre, FirstBeyond(e.pre)) + Px(e.pre.backVelocity, e.dt)

\* C7: while a gap is active, update(dt) changes the distance of every ball at or
\* beyond splitPoint by backVelocity * dt and leaves every ball before splitPoint
\* where it is, unless the step closes the gap.
C7_GapClosingStep ==
  \A e \in CallsOf("update") :
    (GapStep(e) /\ e.post.isClosingGap) =>
      \A x \in Range(GetBalls(e.pre)) :
        Distance(e.post, x) =
          (IF Distance(e.pre, x) >= e.pre.splitPoint[1]
           THEN Distance(e.pre, x) + Px(e.pre.backVelocity, e.dt)
           ELSE Distance(e.pre, x))

\* C8: a tick of the game in play makes exactly one movement update of the chain,
\* the normal advance when no gap is closing and the gap-closing update when one
\* is; in a tick with gap closing active no ball before the split moves toward
\* the sink.
C8_OneMovementPerTick ==
  last.updated =>
    /\ Cardinality({i \in DOMAIN last.calls : last.calls[i].op = "update"}) = 1
    /\ \A e \in CallsOf("update") :
         /\ e.post = (IF e.pre.isClosingGap THEN UpdateGapClosing(e.pre, e.dt)
                      ELSE UpdateNormalMovement(e.pre, e.dt))
         /\ GapStep(e) =>
              \A x \in Range(GetBalls(e.pre)) :
                Distance(e.pre, x) < e.pre.splitPoint[1]
                  => Distance(e.post, x) >= Distance(e.pre, x)

\* C9: with no gap closing, update(dt) takes velocity * dt off the distance of
\* every ball of the chain and leaves the order and the links as they were.
C9_NormalAdvance ==
  \A e \in CallsOf("update") :
    ~e.pre.isClosingGap =>
      /\ \A x \in Range(GetBalls(e.pre)) :
           /\ Distance(e.post, x) = Distance(e.pre, x) - Px(e.pre.velocity, e.dt)
           /\ e.post.balls[x].prev = e.pre.balls[x].prev
           /\ e.post.balls[x].next = e.pre.balls[x].next
      /\ GetBalls(e.post) = GetBalls(e.pre)
      /\ e.post.head = e.pre.head
      /\ e.post.tail = e.pre.tail

\* a normal advance of a chain of three that moved
C9_Witness ==
  \E e \in CallsOf("update") :
    /\ ~e.pre.isClosingGap
    /\ GetLength(e.pre) = 3
    /\ Px(e.pre.velocity, e.dt) > 0
    /\ Distance(e.post, e.pre.tail) < Distance(e.pre, e.pre.tail)

\* the position of ball b in the list L
Index(L, b) == CHOOSE i \in DOMAIN L : L[i] = b

SameColour(c, L, i, j) == \A k \in i..j : c.balls[L[k]].color = c.balls[L[j]].color

\* the longest stretch of the list L around position i in the colour of L[i]
MaximalRun(c, L, i) ==
  SubSeq(L, Min({j \in 1..i : \A k \in j..i : c.balls[L[k]].color = c.balls[L[i]].color}),
            i + Cardinality({j \in (i + 1)..Len(L) :
                               \A k \in i..j : c.balls[L[k]].color = c.balls[L[i]].color}))

\* C10: findMatch(startBall) returns the maximal run of consecutive balls of
\* startBall's colour around startBall, head to tail, when the run has at least
\* 3 balls, and null otherwise; it never returns fewer than 3 balls.
C10_FindMatchMaximalRun ==
  \A e \in CallsOf("findMatch") :
    /\ e.balls = (IF Len(MaximalRun(e.pre, GetBalls(e.pre), Index(GetBalls(e.pre), e.ball))) >= 3
                  THEN MaximalRun(e.pre, GetBalls(e.pre), Index(GetBalls(e.pre), e.ball))
                  ELSE <<>>)
    /\ Len(e.balls) = 0 \/ Len(e.balls) >= 3

\* a run of three found from its middle ball in a chain with other balls
C10_Witness ==
  \E e \in CallsOf("findMatch") :
    /\ Len(e.balls) = 3
    /\ e.balls[2] = e.ball
    /\ GetLength(e.pre) > 3

\* the balls of L[i]'s colour met from position i toward the head, head first
BackRun(c, L, i) ==
  SubSeq(L, Min({j \in 1..i : \A k \in j..i : c.balls[L[k]].color = c.balls[L[i]].color}), i)

\* the balls of colour col met from position i toward the tail
ForwardRun(c, L, i, col) ==
  SubSeq(L, i, i - 1 + Cardinality({j \in i..Len(L) :
                                      \A k \in i..j : c.balls[L[k]].color = col}))

\* the run around the junction of frontBall and backBall
JunctionRun(c, L, frontBall, backBall) ==
  BackRun(c, L, Index(L, frontBall))
    \o ForwardRun(c, L, Index(L, backBall), c.balls[frontBall].color)

\* C11: checkChainReaction returns null when a boundary is null or the colours
\* differ; otherwise it returns frontBall with the same-coloured balls before it
\* followed by backBall with the same-coloured balls after it, exactly when
\* that run has at least 3 balls.
C11_CheckChainReaction ==
  \A e \in CallsOf("checkChainReaction") :
    IF e.frontBall = Null \/ e.backBall = Null THEN e.balls = <<>>
    ELSE IF e.pre.balls[e.frontBall].color # e.pre.balls[e.backBall].color
         THEN e.balls = <<>>
         ELSE e.balls =
                (IF Len(JunctionRun(e.pre, GetBalls(e.pre), e.frontBall, e.backBall)) >= 3
                 THEN JunctionRun(e.pre, GetBalls(e.pre), e.frontBall, e.backBall)
                 ELSE <<>>)

\* a junction of two neighbours of one colour that gives a run of three, in a
\* chain that holds a ball of the other colour
C11_Witness ==
  \E e \in CallsOf("checkChainReaction") :
    /\ e.frontBall # Null
    /\ e.pre.balls[e.frontBall].next = e.backBall
    /\ Len(e.balls) = 3
    /\ GetLength(e.pre) > 3

\* the removals made by updateGapClosing in the last frame: the removeBalls
\* calls that follow the chain's update
CascadeRemovals ==
  {i \in 1..Len(last.calls) :
     /\ last.calls[i].op = "removeBalls"
     /\ \E j \in 1..(i - 1) : last.calls[j].op = "update"}

CascadeShrinks ==
  \A i \in CascadeRemovals :
    GetLength(last.calls[i].post) + 3 <= GetLength(last.calls[i].pre)

\* a gap is closing or a cascade check is pending
CascadeOpen ==
  status = "PLAYING" /\ (chain.isClosingGap \/ pendingChainReaction # NoPending)

\* nothing but updateGame can change the chain: no ball is in flight and no
\* ball is left to spawn
OnlyTicks == firedBalls = <<>> /\ IsSpawningComplete(G)

\* updateGame leaves the chain, the pending check and the status as they are,
\* and so does every later tick: the cascade never ends
Frozen(r) ==
  /\ r.chain = chain
  /\ r.pending = pendingChainReaction
  /\ r.status = status
  /\ r.ballsSpawned = ballsSpawned
  /\ r.spawner = spawner
  /\ r.score.chainMultiplier = score.chainMultiplier

\* C12: every cascade removal shortens the chain by at least 3 balls, and a game
\* with a gap closing or a cascade check pending, ticked on without further
\* projectile insertions, reaches a state with no gap closing and no cascade
\* check pending: it is never in a state that the ticks leave unchanged.
C12_CascadeTerminates ==
  /\ CascadeShrinks
  /\ CascadeOpen /\ OnlyTicks => ~Frozen(UpdateGame(G, FrameTime, <<>>, 1))

\* the points of a run of n balls
Award(n) == IF n = 3 THEN 100 ELSE IF n = 4 THEN 150 ELSE 200 + 50 * (n - 5)

\* C13: addMatchPoints(n) returns base(n) * chainMultiplier and adds that to the
\* level's score; for n < 3 it returns 0 and changes nothing; the multiplier,
\* the total and the high score are never changed.
C13_AddMatchPoints ==
  \A e \in CallsOf("addMatchPoints") :
    /\ e.points = (IF e.ballCount < 3 THEN 0 ELSE Award(e.ballCount) * e.pre.chainMultiplier)
    /\ e.post = [e.pre EXCEPT !.current = e.pre.current + e.points]

\* a run of 7 balls at multiplier 2, with a total and a high score to keep
C13_Witness ==
  \E e \in CallsOf("addMatchPoints") :
    /\ e.ballCount = 7
    /\ e.pre.chainMultiplier = 2
    /\ e.points = 600
    /\ e.pre.total > 0
    /\ e.pre.highScore > 0
    /\ e.pre.current > 0

\* the position of the chain's update among the calls of a frame
FirstUpdate(calls) == Min({i \in 1..Len(calls) : calls[i].op = "update"})

\* the score after the projectile insertions of a frame, which come before the
\* chain's update: a run removed right after the insertion is paid at the
\* multiplier as it is, an insertion without removal resets the multiplier
RECURSIVE DirectReplay(_, _, _, _)
DirectReplay(calls, i, u, sc) ==
  IF i >= u THEN sc
  ELSE IF calls[i].op # "insertBall" THEN DirectReplay(calls, i + 1, u, sc)
  ELSE IF i + 1 < u /\ calls[i + 1].op = "removeBalls"
       THEN DirectReplay(calls, i + 2, u,
                         [sc EXCEPT !.current = @ + Award(Len(calls[i + 1].balls))
                                                    * sc.chainMultiplier])
       ELSE DirectReplay(calls, i + 1, u, [sc EXCEPT !.chainMultiplier = 1])

\* the score sc left by the projectile insertions and the score after the
\* frame, whose calls hold the cascade removals at the positions in cascade
CascadePaid(sc, after, calls, cascade) ==
  IF cascade = {}
  THEN after.current = sc.current /\ after.chainMultiplier \in {sc.chainMultiplier, 1}
  ELSE \E i \in cascade :
         /\ cascade = {i}
         /\ after.chainMultiplier = sc.chainMultiplier + 1
         /\ after.current = sc.current + Award(Len(calls[i].balls)) * (sc.chainMultiplier + 1)

PlayedFrame == last'.op = "play"

CascadeScoring ==
  PlayedFrame =>
    CascadePaid(DirectReplay(last'.calls, 1, FirstUpdate(last'.calls), score), score',
                last'.calls, CascadeRemovals')

\* C14: a removal made by the cascade check is paid base(size) times the
\* multiplier incremented by 1, and leaves the multiplier incremented; a run
\* removed directly after a projectile's insertion is paid at the multiplier as
\* it is and does not increment it.
C14_CascadeScoring == [][CascadeScoring]_vars

\* a cascade removal paid at multiplier 2 after a direct match paid at 1
C14_Witness ==
  /\ last.op = "play"
  /\ CascadeRemovals # {}
  /\ score.chainMultiplier = 2
  /\ \E i \in CascadeRemovals, n \in 3..MaxBalls :
       score.current = Award(n) + 2 * Award(Len(last.calls[i].balls))

\* C15: in every state of a running game where no gap closing is active and no
\* cascade check is pending, the chain multiplier is 1.
C15_MultiplierResetAfterCascade ==
  status = "PLAYING" /\ ~chain.isClosingGap /\ pendingChainReaction = NoPending
    => score.chainMultiplier = 1

\* the projectile insertions of the last frame: the insertBall calls before the
\* chain's update
Projectiles ==
  {i \in 1..(FirstUpdate(last.calls) - 1) : last.calls[i].op = "insertBall"}

\* the last projectile inserted in the frame produced no run: no removeBalls
\* follows its insertion
InsertedWithoutRun ==
  /\ Projectiles # {}
  /\ \A i \in Projectiles :
       (\A j \in Projectiles : j <= i) =>
         ~(i + 1 <= Len(last.calls) /\ last.calls[i + 1].op = "removeBalls")

\* the gap finished closing in the chain's update of the last frame
GapFinished ==
  \E e \in CallsOf("update") : e.pre.isClosingGap /\ ~e.post.isClosingGap

C17_NoBallPastSink ==
  status = "PLAYING" /\ last.updated =>
    \A b \in Range(GetBalls(chain)) : Distance(chain, b) > 0

\* the head of the chain is at the sink or past it
HeadAtSink == chain.head # Null /\ Distance(chain, chain.head) <= 0

\* C18: the hole collision holds exactly when the chain is not empty and its
\* head has distanceAlongPath <= 0; a frame that ran updateGame ends in LOSE
\* exactly when that is so after its movement, and in that frame the level is
\* not completed.
C18_LoseAtHoleCollision ==
  /\ CheckHoleCollision(chain) <=> HeadAtSink
  /\ last.updated => (status = "LOSE" <=> HeadAtSink)
  /\ status = "LOSE" => score.total = 0

\* the game is lost in a frame that left balls behind the head
C18_Witness == status = "LOSE" /\ GetLength(chain) > 1 /\ HeadAtSink

\* the spawn point is free: the chain is empty or its tail is at least one
\* ball away from totalLength
Room(c) == c.tail = Null \/ TotalLength - Distance(c, c.tail) >= 2 * BALL_RADIUS

\* the loop is entered: an interval has elapsed and the chain is below maxBalls
Entered(e) == e.accumulator + e.dt >= SpawnInterval /\ GetLength(e.pre) < e.maxBalls

\* the turns of the loop: after the first turn the tail is at the spawn point,
\* so that the turns go on until the accumulator or the capacity ends them
Turns(e) ==
  IF ~Entered(e) THEN 0
  ELSE IF GetLength(e.post) >= e.maxBalls THEN 1
  ELSE (e.accumulator + e.dt) \div SpawnInterval

\* the ball added by the call is the new tail, at totalLength, behind the balls
\* the chain had
AddedAtTail(e) ==
  /\ GetBalls(e.post) = Append(GetBalls(e.pre), e.post.tail)
  /\ Distance(e.post, e.post.tail) = TotalLength
  /\ \A b \in Range(GetBalls(e.pre)) : Distance(e.post, b) = Distance(e.pre, b)

\* C19: update adds dt to the accumulator and, while an interval has elapsed
\* and the chain is below maxBalls, attempts one spawn at totalLength and
\* subtracts one interval, whether or not the spawn succeeded; an attempt is
\* rejected, the chain unchanged, when the tail is less than 2 * BALL_RADIUS
\* from totalLength; the value returned is the number of balls added, by which
\* the chain's length grows.
C19_SpawnerUpdate ==
  \A e \in CallsOf("spawnerUpdate") :
    /\ e.remaining = e.accumulator + e.dt - Turns(e) * SpawnInterval
    /\ e.spawned = (IF Entered(e) /\ Room(e.pre) THEN 1 ELSE 0)
    /\ GetLength(e.post) = GetLength(e.pre) + e.spawned
    /\ IF e.spawned = 0 THEN e.post = e.pre ELSE AddedAtTail(e)

\* two intervals elapse in a call on a chain with room for one ball: one spawn
\* succeeds, the second is rejected and its interval is subtracted
C19_Witness ==
  \E e \in CallsOf("spawnerUpdate") :
    /\ e.spawned = 1
    /\ GetLength(e.pre) >= 1
    /\ e.maxBalls > GetLength(e.post)
    /\ e.accumulator + e.dt - e.remaining = 2 * SpawnInterval

\* C20: intervals that elapse while the chain is at capacity or the spawn point
\* is not free are not carried over: after every update call the accumulator
\* holds less than one interval.
C20_NoCarryOver ==
  \A e \in CallsOf("spawnerUpdate") : e.remaining < SpawnInterval

\* the balls the spawner added in the frame that made calls: the insertBall
\* calls after the chain's update
SpawnerInsertions(calls) ==
  {i \in (FirstUpdate(calls) + 1)..Len(calls) : calls[i].op = "insertBall"}

\* the balls spawnInitialBalls added in the frame that made calls
InitialInsertions(calls) ==
  {i \in 1..(FirstUpdate(calls) - 1) : calls[i].op = "insertBall"}

\* a frame of the level: the count grows by the balls the spawner adds, stays
\* within the threshold, and stands still once it reached the threshold
SpawnCounted ==
  /\ ballsSpawned' <= SpawnThreshold
  /\ last'.op = "play" =>
       /\ ballsSpawned' = ballsSpawned + Cardinality(SpawnerInsertions(last'.calls))
       /\ ballsSpawned >= SpawnThreshold => SpawnerInsertions(last'.calls) = {}
  /\ last'.op = "start" =>
       ballsSpawned' = Cardinality(InitialInsertions(last'.calls))
                         + Cardinality(SpawnerInsertions(last'.calls))

\* C21: ballsSpawned never exceeds spawnThreshold, grows by exactly the number of
\* balls the spawner adds, and once it reached spawnThreshold no ball is
\* spawned any more in the level.
C21_SpawnThreshold == [][SpawnCounted]_vars

\* the threshold was reached by the spawner and a later tick, with the spawn
\* point free and balls in the chain, spawned nothing
C21_Witness ==
  /\ last.op = "play"
  /\ status = "PLAYING"
  /\ ballsSpawned = SpawnThreshold
  /\ SpawnerInsertions(last.calls) = {}
  /\ ~IsEmpty(chain)
  /\ Room(chain)

\* fire on cooldown returns null and changes nothing; a successful fire returns
\* the current colour, moves the reserve colour up and starts the cooldown
FireEffect(e) ==
  IF e.pre.cooldown > 0 THEN e.ball = Null /\ e.post = e.pre
  ELSE /\ e.ball = e.pre.currentBall
       /\ e.post.currentBall = e.pre.reserveBall
       /\ e.post.cooldown = SHOOTER_COOLDOWN

\* update takes dt off the cooldown and stops at 0
CooldownEffect(e) ==
  /\ e.post.cooldown = Max0(e.pre.cooldown - e.dt)
  /\ e.post.currentBall = e.pre.currentBall
  /\ e.post.reserveBall = e.pre.reserveBall

\* C22: fire while the cooldown is above 0 returns null and leaves currentBall,
\* reserveBall and cooldown unchanged; a successful fire returns a ball of the
\* previous current colour, makes currentBall the previous reserveBall and sets
\* the cooldown to SHOOTER_COOLDOWN; update takes dt off the cooldown and never
\* lets it go below 0; between two successful fires the dt given to update sum
\* to at least SHOOTER_COOLDOWN.
C22_ShooterCooldown ==
  /\ \A e \in CallsOf("fire") :
       /\ FireEffect(e)
       /\ e.ball # Null /\ e.fired => e.since >= SHOOTER_COOLDOWN
  /\ \A e \in CallsOf("shooterUpdate") : CooldownEffect(e)
  /\ shooter.cooldown >= 0

\* a second successful fire, after updates that overshot the cooldown
C22_Witness ==
  \E e \in CallsOf("fire") :
    /\ e.ball # Null
    /\ e.fired
    /\ e.since > SHOOTER_COOLDOWN
    /\ e.pre.currentBall # e.pre.reserveBall

\* a fire on cooldown
C22_WitnessRejected == \E e \in CallsOf("fire") : e.pre.cooldown > 0 /\ e.ball = Null

\* hasWon at the end of a tick, with the loss condition not holding
WinCondition(n, c, fired) ==
  /\ n >= SpawnThreshold
  /\ IsEmpty(c)
  /\ fired = <<>>
  /\ ~CheckHoleCollision(c)

\* the balls the removeBalls calls of a frame took out of the chain
RECURSIVE MatchedCount(_)
MatchedCount(calls) ==
  IF calls = <<>> THEN 0
  ELSE (IF Head(calls).op = "removeBalls" THEN Len(Head(calls).balls) ELSE 0)
       + MatchedCount(Tail(calls))

InsertedCount(calls) == Cardinality({i \in DOMAIN calls : calls[i].op = "insertBall"})

\* the balls of the chain are those inserted and not yet removed by a match
BallsAccounted ==
  GetLength(chain') = (IF last'.op = "start" THEN 0 ELSE GetLength(chain))
                        + InsertedCount(last'.calls) - MatchedCount(last'.calls)

WinStep ==
  /\ (status' = "WIN" /\ status # "WIN") =>
       /\ status = "PLAYING"
       /\ last'.op = "play"
       /\ WinCondition(ballsSpawned', chain', firedBalls')
  /\ (status = "PLAYING" /\ last'.op = "play"
        /\ WinCondition(ballsSpawned', chain', firedBalls')) => status' = "WIN"
  /\ BallsAccounted

\* C23: the game moves from PLAYING to WIN only in a tick at whose end
\* ballsSpawned has reached spawnThreshold, the chain is empty and no projectile
\* is in flight, and in the first such tick in which the loss condition does not
\* hold; every ball spawned or inserted leaves the chain only by a match, so the
\* chain that is empty at the win has lost all of them to matches.
C23_WinCondition == [][WinStep]_vars

\* a level won
C23_Witness ==
  /\ status = "WIN"
  /\ last.op = "play"
  /\ last.status = "PLAYING"
  /\ MatchedCount(last.calls) > 0

\* a removal that opens a split: both boundaries exist
OpensSplit(e) == e.frontBall # Null /\ e.backBall # Null

\* C24: at most one gap-closing maneuver is active at a time: removeBalls is
\* never executed with both boundaries non-null while a gap is still closing.
C24_OneGapAtATime ==
  \A e \in CallsOf("removeBalls") : e.pre.isClosingGap => ~OpensSplit(e)

ResetLevelEffect(e) ==
  /\ e.post.current = 0
  /\ e.post.chainMultiplier = 1
  /\ e.post.total = e.pre.total
  /\ e.post.highScore = e.pre.highScore

CompleteLevelEffect(e) ==
  /\ e.post.total = e.pre.total + e.pre.current
  /\ e.post.highScore = (IF e.post.total > e.pre.highScore THEN e.post.total
                         ELSE e.pre.highScore)
  /\ e.post.highScore >= e.post.total

\* the calls of the methods of one Score object
MethodCalls == {e \in Range(last.calls) : e.op # "construct"}

\* C25: resetLevel sets current to 0 and the multiplier to 1 and leaves total
\* and highScore; completeLevel adds current to total, then sets highScore to
\* total if total exceeds it; no method lowers highScore, and after
\* completeLevel highScore is at least total.
C25_LevelScores ==
  /\ \A e \in CallsOf("resetLevel") : ResetLevelEffect(e)
  /\ \A e \in CallsOf("completeLevel") : CompleteLevelEffect(e)
  /\ \A e \in MethodCalls : e.post.highScore >= e.pre.highScore

\* a level completed with a new best score
C25_Witness ==
  \E e \in CallsOf("completeLevel") :
    /\ e.pre.current > 0
    /\ e.pre.total > 0
    /\ e.pre.highScore > 0
    /\ e.post.highScore > e.pre.highScore

\* C26: in every Score state reached by addMatchPoints, incrementChainMultiplier,
\* resetChainMultiplier, resetLevel, completeLevel and resetGame, the multiplier
\* is an integer of at least 1 and current, total and highScore are at least 0.
C26_ScoreRanges ==
  /\ score.chainMultiplier \in Nat \ {0}
  /\ score.current \in Nat
  /\ score.total \in Nat
  /\ score.highScore \in Nat

\* localStorage gives no number: no item, no digit to parse, or no access
NothingStored(st) ==
  \/ ~st.available
  \/ ~st.item.present
  \/ ParseInt(st.item.value).nan

\* the best score a new Score object starts with
LoadEffect(sc, st) ==
  /\ sc.highScore \in Nat
  /\ NothingStored(st) => sc.highScore = 0

\* a failing save leaves the new best score in the object
SaveEffect(e) ==
  (~last.storage.available /\ e.pre.total + e.pre.current > e.pre.highScore) =>
    /\ e.post.highScore = e.pre.total + e.pre.current
    /\ storage = last.storage

\* C27: loading the best score never fails and yields a non-negative integer,
\* 0 when the stored value is absent or unparsable or the storage unavailable;
\* a failing save is swallowed and the highScore in memory stays the new best.
C27_HighScorePersistence ==
  /\ last.op \in {"init", "construct"} => LoadEffect(score, last.storage)
  /\ \A e \in CallsOf("completeLevel") : SaveEffect(e)

\* the status changes of the state diagram
Transitions ==
  {<<"MENU", "PLAYING">>, <<"PLAYING", "PAUSED">>, <<"PAUSED", "PLAYING">>,
   <<"PAUSED", "MENU">>, <<"PLAYING", "WIN">>, <<"PLAYING", "LOSE">>,
   <<"WIN", "PLAYING">>, <<"WIN", "MENU">>, <<"LOSE", "PLAYING">>, <<"LOSE", "MENU">>}

\* the status in which a guarded method acts
ActsIn ==
  [pause |-> "PLAYING", resume |-> "PAUSED", win |-> "PLAYING", lose |-> "PLAYING",
   nextLevel |-> "WIN"]

\* a guarded method called in another status changes nothing and notifies nobody
Ignored ==
  (last.op \in DOMAIN ActsIn /\ last.status # ActsIn[last.op]) =>
    /\ status = last.status
    /\ CallsOf("onStateChange") = {}

\* C28: over any sequence of StateManager calls the status changes only along
\* MENU->PLAYING, PLAYING->PAUSED, PAUSED->PLAYING, PAUSED->MENU, PLAYING->WIN,
\* PLAYING->LOSE, WIN->PLAYING, WIN->MENU, LOSE->PLAYING and LOSE->MENU; pause
\* acts only in PLAYING, resume only in PAUSED, win and lose only in PLAYING,
\* nextLevel only in WIN, and such a call in any other status leaves the status
\* unchanged and fires no state-change callback.
C28_StatusTransitions ==
  /\ status # last.status => <<last.status, status>> \in Transitions
  /\ Ignored

Unlinked(c, b) == c.balls[b].prev = Null /\ c.balls[b].next = Null

\* the Ball objects that exist and are not in the chain
Outside(c) == {b \in DOMAIN c.balls : c.balls[b].color # 0 /\ ~Resident(c, b)}

\* the balls a removeBalls call took out are out of the chain, without links
RemovedUnlinked(e) ==
  \A b \in Range(e.balls) : ~Resident(e.post, b) /\ Unlinked(e.post, b)

\* the insertBall calls of updateFiredBalls in a played frame
Collided == {last.calls[i] : i \in Projectiles}

\* C29: at the end of every tick each ball is in at most one of the chain and the
\* list of balls in flight; a ball that collided was put in the chain and is no
\* longer in flight; every ball that is not in the chain, in flight or removed,
\* has prev and next null.
C29_Ownership ==
  /\ Range(GetBalls(chain)) \cap Range(firedBalls) = {}
  /\ \A b \in Outside(chain) : Unlinked(chain, b)
  /\ last.op = "play" =>
       /\ \A e \in CallsOf("removeBalls") : RemovedUnlinked(e)
       /\ \A e \in Collided :
            Resident(e.post, e.ball) /\ e.ball \notin Range(last.inFlight)

\* a tick in which a fired ball was inserted and balls were removed, with a
\* Ball object outside the chain at its end
C29_Witness ==
  /\ last.op = "play"
  /\ Collided # {}
  /\ CallsOf("removeBalls") # {}
  /\ Outside(chain) # {}

\* the balls of the chain whose point of the track is closer than
\* 2 * BALL_RADIUS to the fired ball
Close(e) ==
  {b \in Range(GetBalls(e.pre)) :
     DistTo(e.pre, e.firedPos, b) < (BALL_RADIUS * 2) * (BALL_RADIUS * 2)}

\* the result names a closest ball, the side by the sign of the dot product,
\* and the distance one diameter before or after it
ResultEffect(e) ==
  /\ e.result.collidedWith \in Close(e)
  /\ \A b \in Close(e) :
       DistTo(e.pre, e.firedPos, e.result.collidedWith) <= DistTo(e.pre, e.firedPos, b)
  /\ e.result.insertBefore <=> (Dot(e.pre, e.firedPos, e.result.collidedWith) < 0)
  /\ e.result.insertionDistance =
       (IF e.result.insertBefore
        THEN Max0(Distance(e.pre, e.result.collidedWith) - BALL_RADIUS * 2)
        ELSE Distance(e.pre, e.result.collidedWith) + BALL_RADIUS * 2)

C30_WitnessNull ==
  \E e \in CallsOf("checkBallChainCollision") :
    e.result.collidedWith = Null /\ ~IsEmpty(e.pre)

\* the colours of the palette before the colour returned, and the number of
\* balls of chain c whose colour is among the colours S
Before(color) ==
  {Palette[j] : j \in {j \in DOMAIN Palette : \E i \in DOMAIN Palette : Palette[i] = color /\ j < i}}
Occurrences(c, S) == Cardinality({b \in Range(GetBalls(c)) : c.balls[b].color \in S})
Weights(c, S) == Occurrences(c, S) + Cardinality(S)

\* the draw e.draw / Resolution lies in the stretch of [0, 1) that belongs to
\* colour color, whose length is (count of color + 1) / total weight
InShare(e, color) ==
  /\ Resolution * Weights(e.pre, Before(color))
       <= e.draw * Weights(e.pre, Range(Palette))
  /\ e.draw * Weights(e.pre, Range(Palette))
       <= Resolution * (Weights(e.pre, Before(color)) + Occurrences(e.pre, {color}) + 1)

\* C31: for a non-empty chain getWeightedRandomColor returns a colour of the
\* palette, chosen with weight (count of that colour in the chain) + 1: the
\* draw lies in the share of the colour returned; every colour of the palette,
\* also one the chain does not hold, is returned for some draw; the fallback
\* after the loop is reached for no draw.
C31_WeightedColor ==
  \A e \in CallsOf("getWeightedRandomColor") :
    ~IsEmpty(e.pre) =>
      /\ e.result.color \in Range(Palette)
      /\ e.result.by = "loop"
      /\ InShare(e, e.result.color)
      /\ \A color \in Range(Palette) :
           \E draw \in Draws : GetWeightedRandomColor(e.pre, draw, 0).color = color
      /\ \A draw \in Draws, draw2 \in Draws :
           GetWeightedRandomColor(e.pre, draw, draw2).by = "loop"

\* the colour returned is one the chain does not hold
C31_Witness ==
  \E e \in CallsOf("getWeightedRandomColor") :
    /\ ~IsEmpty(e.pre)
    /\ Occurrences(e.pre, {e.result.color}) = 0
    /\ GetLength(e.pre) = MaxRun

\* C32: new Path with fewer than 4 control points throws and leaves no Path;
\* with 4 or more it succeeds; and for every t of 0..1 the four control points
\* getPointAtT reads have indices within the array of control points.
C32_PathConstruction ==
  /\ \A e \in CallsOf("construct") :
       /\ e.error <=> e.points < 4
       /\ e.error => e.result = NoPath /\ path = e.pre
       /\ ~e.error => path = e.result /\ path.points = e.points /\ path # NoPath
  /\ \A e \in CallsOf("getPointAtT") :
       (0 <= e.t /\ e.t <= TSteps) =>
         \A j \in 1..4 : e.result.indices[j] \in 0..(e.pre.points - 1)

\* t = 1 on a path of two Bezier segments: the segment index floor(t * 2) = 2
\* is held at 1 and the last control point of the second segment is read
C32_Witness ==
  \E e \in CallsOf("getPointAtT") :
    /\ e.t = TSteps
    /\ NumSegments(e.pre.points) = 2
    /\ e.result.indices[4] = 6

\* a construction that threw
C32_WitnessError == \E e \in CallsOf("construct") : e.error /\ e.points = 3

\* the removals of the frame, and the balls of a chain
Removals == CallsOf("removeBalls") \cup CallsOf("removeBall")
Batch(e) == IF e.op = "removeBalls" THEN Range(e.balls) ELSE {e.ball}
BallsOf(c) == Range(GetBalls(c))

\* the cascade check of the frame, if updateGapClosing made one
CascadeChecks == IF last.updated THEN Range(last.checked) ELSE {}

\* the removal took the balls of its batch and no other out of the chain
RemovedOnlyBatch(e) == BallsOf(e.post) = BallsOf(e.pre) \ Batch(e)

\* C33: in every tick each ball handed to removeBalls or removeBall is in the
\* chain at that moment, and the removal takes no other ball out of the walk
\* from head; the boundary balls kept as the pending cascade are in the chain
\* when the cascade check runs.
C33_RemovedAreResident ==
  /\ \A e \in Removals :
       /\ \A b \in Batch(e) : Resident(e.pre, b)
       /\ RemovedOnlyBatch(e)
  /\ \A k \in CascadeChecks :
       /\ Resident(k.pre, k.frontBall)
       /\ Resident(k.pre, k.backBall)

\* the balls of the batch have one colour
OneColour(e) ==
  \A a \in Range(e.balls), b \in Range(e.balls) :
    e.pre.balls[a].color = e.pre.balls[b].color

\* the balls of the batch are one stretch of the walk from head
Consecutive(e) ==
  \E i \in 1..GetLength(e.pre) : \E j \in i..GetLength(e.pre) :
    Range(e.balls) = {GetBalls(e.pre)[m] : m \in i..j}

\* C34: every batch the engine removes, after an insertion or after a gap
\* closure, has at least 3 balls, of one colour, consecutive in the chain; and
\* the two boundary balls the cascade check is given, when they are balls of
\* the chain, are adjacent in it at that moment (front.next = back).
C34_ConsecutiveBatches ==
  /\ \A e \in CallsOf("removeBalls") :
       /\ Len(e.balls) >= 3
       /\ OneColour(e)
       /\ Consecutive(e)
  /\ \A k \in CascadeChecks :
       (Resident(k.pre, k.frontBall) /\ Resident(k.pre, k.backBall)) =>
         k.pre.balls[k.frontBall].next = k.backBall

\* a level in play in which only the ticks act on the chain, now and later: no
\* ball is in flight, none is left to spawn, and the tick ends the level neither
\* by a ball at the hole nor by an empty chain
TicksOnly ==
  /\ status = "PLAYING"
  /\ firedBalls = <<>>
  /\ IsSpawningComplete(G)
  /\ ~IsEmpty(chain)
  /\ ~CheckHoleCollision(chain)

\* C35: a gap that is closing goes on closing: in a level where only the ticks
\* act, chain.update(dt) for dt > 0 moves a ball or ends the gap closing; the
\* chain is never in a gap-closing state that the update leaves as it is, which
\* no number of further ticks would end.
C35_GapClosingCompletes ==
  (TicksOnly /\ IsGapClosing(chain)) => Update(chain, FrameTime) # chain

\* the frame that pauses changes the status alone
PauseKeeps ==
  /\ status' = "PAUSED"
  /\ UNCHANGED <<chain, firedBalls, ballsSpawned, timeElapsed, score, shooter, spawner>>

\* the frame that resumes runs updateGame on the game as the pause left it: the
\* first call of the frame finds the paused chain, the balls in flight are among
\* the paused ones, counters and scores are not below the paused ones
ResumeKeeps ==
  /\ last'.calls # <<>>
  /\ last'.calls[1].pre = chain
  /\ Range(last'.inFlight) \subseteq Range(firedBalls)
  /\ ballsSpawned' >= ballsSpawned
  /\ timeElapsed' = timeElapsed + last'.dt
  /\ score'.current >= score.current
  /\ score'.total >= score.total

\* C36: a pause followed by a resume returns the game to PLAYING with the chain,
\* the balls in flight, ballsSpawned, timeElapsed and the scores as they were
\* when the pause was requested: the pause withholds ticks and nothing else
C36_PauseResumeKeeps ==
  [][/\ last'.op = "pause" => PauseKeeps
     /\ last'.op = "resume" => ResumeKeeps]_vars

\* C37: inserting a fired ball never by itself ends the level: when the head ball
\* was not at the hole before the projectile was inserted (distance > 0), it is
\* not at the hole immediately after the insertion
C37_InsertionKeepsHeadOffHole ==
  last.op = "play" =>
    \A e \in Collided : ~CheckHoleCollision(e.pre) => ~CheckHoleCollision(e.post)

\* C38: the fire intent of the mouse is edge-triggered and lossless: for every
\* left-button press, whatever the order of mousedown, mouseup, mouseleave and
\* the polls, isFirePressed returns true in exactly one poll: never in more than
\* one, and a press that is over has been reported
C38_FireIntentExactlyOnce ==
  /\ last.trues <= 1
  /\ (last.presses > 0 /\ ~mouse.leftClickPressed) => last.trues = 1

\* the intervals a call of BallSpawner.update took from the accumulator
Consumed(e) == (e.accumulator + e.dt) - e.remaining

\* C39: one call of BallSpawner.update adds at most one ball to the chain however
\* large dt is: the ball it adds is the tail at totalLength, every further turn of
\* the loop is rejected for want of room and still takes an interval from the
\* accumulator, and the loop ends below one interval or at the capacity
C39_OneSpawnPerUpdate ==
  \A e \in CallsOf("spawnerUpdate") :
    /\ e.spawned <= 1
    /\ GetLength(e.post) = GetLength(e.pre) + e.spawned
    /\ e.spawned = 1 => e.post.balls[e.post.tail].distanceAlongPath = TotalLength
    /\ Consumed(e) >= 0 /\ Consumed(e) % SpawnInterval = 0
    /\ e.remaining >= SpawnInterval => GetLength(e.post) >= e.maxBalls

\* a call whose dt holds more than two intervals adds one ball, takes two
\* intervals and stops with room for more balls
C39_Witness ==
  \E e \in CallsOf("spawnerUpdate") :
    /\ e.dt > 2 * SpawnInterval
    /\ e.spawned = 1
    /\ Consumed(e) >= 2 * SpawnInterval
    /\ GetLength(e.post) < e.maxBalls

\* C40: Path.distanceToT, for a non-decreasing arc-length table that starts at 0
\* and any distance: the distance is clamped to [0, totalLength], the binary
\* search ends with low at the smallest index whose entry is >= the distance,
\* for low > 0 table[low-1] < distance <= table[low], so the denominator of the
\* interpolation is not zero, and the parameter returned lies in [0, 1]
C40_DistanceToT ==
  \A e \in CallsOf("distanceToT") :
    LET table == e.pre.arcLengthTable
        d == ClampDistance(e.pre, e.distance)
        low == e.result.low
    IN  /\ 0 <= d /\ d <= e.pre.totalLength
        /\ low \in 0..(Len(table) - 1)
        /\ table[low + 1] >= d
        /\ \A i \in 0..(low - 1) : table[i + 1] < d
        /\ low > 0 => table[low] < d /\ d <= table[low + 1]
        /\ e.result.den # 0
        /\ 0 <= e.result.num /\ e.result.num <= e.result.den

\* the distance is found twice in the table, past its start: the search stops at
\* the first of the two entries
C40_Witness ==
  \E e \in CallsOf("distanceToT") :
    LET table == e.pre.arcLengthTable
        low == e.result.low
    IN  /\ low > 0
        /\ low + 2 <= Len(table)
        /\ table[low + 1] = e.distance
        /\ table[low + 2] = e.distance

\* a distance beyond the end of the path is answered with the parameter 1
C40_WitnessClamped ==
  \E e \in CallsOf("distanceToT") :
    /\ e.distance > e.pre.totalLength
    /\ e.pre.totalLength > 0
    /\ e.result.num = e.result.den

====
